---- MODULE Spec2Model ----
(***************************************************************************)
(* Stock_GRIP: the Strategic Optimizer (GPEIMSOptimizer), the Tactical     *)
(* Controller (MPCRLMOBOController) and the OptimizationCoordinator, all   *)
(* working on ONE SQLAlchemy session (coordinator.py:26-39 hands the same  *)
(* database_session to both optimizers).                                   *)
(*                                                                         *)
(* The session is modelled as a single open transaction: tx* is what a     *)
(* query through the session returns (committed rows plus every change     *)
(* made through the session since the last commit), db* is the durable     *)
(* store.  session.commit() copies tx* to db*.  No code path of the three  *)
(* components calls session.rollback().                                    *)
(***************************************************************************)
EXTENDS Integers, Sequences, FiniteSets, TLC

\* ---------------------------------------------------------------- bounds
MaxCalls == 3        \* top-level calls issued by the callers in one behaviour
MaxCycles == 2       \* run_coordination_cycle calls in one behaviour
MaxTicks == 1        \* clock advances in one behaviour
PolicyQuantity == 2  \* order_quantity of the policies the search settles on

\* ------------------------------------------------------ program constants
MinHistory == 30     \* gp_eims.py:246  len(demand_history) < 30

\* MPC_RL_CONFIG and SIMULATION_CONFIG (config/settings.py:57-58, 70), read by
\* MPCController.__init__ (mpc_rl_mobo.py:68-72).
PredictionHorizon == 7
ControlHorizon == 3
WarehouseCapacity == 100000

\* GP_EIMS_CONFIG["max_iterations"] (config/settings.py:39).
MaxIterations == 50

\* The thread that serves the user (dashboard buttons, tests, main()) and the
\* threading.Thread objects made by start_continuous_optimization.
Threads == {"manual", "scheduler", "scheduler2"}

\* A product id that has no row in the Product table.
UnknownId == "INVALID_PRODUCT_ID"

None == "None"

\* last_strategic_optimization = None (coordinator.py:47), as a time.
NeverRun == 0 - 1

\* A results entry that is None (coordinator.py:291-292).
NoResult == [status |-> "None"]

\* The results dict of a cycle that has not been built.
NoCycle == [strategic_optimization |-> NoResult, tactical_optimization |-> NoResult,
            validation_issues |-> {}, parameter_adjustments |-> {}]

\* No optimize_product run is past its history gate.
NoSearch == [phase |-> "none"]

VARIABLES
    products,       \* Product table, in query order (session.query(Product).all())
    demandCount,    \* product id -> number of non-forecast Demand rows
    demandHistory,  \* product id -> its non-forecast Demand rows, latest first,
                    \* as the query of optimize_product returns them
    inventory,      \* Inventory table, in order of timestamp
    productRow,     \* product id -> the columns of its Product row
    recentDemand,   \* product id -> quantities of its Demand rows of the last
                    \* 14 days (non-forecast), as the query returns them
    cvxpy_available,  \* CVXPY_AVAILABLE (mpc_rl_mobo.py:14-19)
    config,         \* the live configuration: GP_EIMS_CONFIG["max_iterations"],
                    \* MPC_RL_CONFIG["prediction_horizon"]
    rl_agents,      \* product id -> what its RLAgent has learnt (is_fitted and
                    \* the Q-value of its weights), mpc_rl_mobo.py:438-444
    state,          \* thread -> the InventoryState it built last
    mpc,            \* thread -> mpc_result of make_replenishment_decision
    decision,       \* thread -> what select_action returned to it
    sim,            \* the locals of InventorySimulator.simulate
    search,         \* the locals of optimize_product from the statistics on, with
                    \* X_observed and y_observed of the optimizer
    dbParams,       \* durable OptimizationParameters rows
    txParams,       \* OptimizationParameters rows as the session sees them
    dbResults,      \* durable OptimizationResults rows (run ids)
    txResults,      \* OptimizationResults rows as the session sees them
    dbActions,      \* durable InventoryActions rows
    txActions,      \* InventoryActions rows as the session sees them
    runs,           \* history: one record per optimize_product run past its lookup
    pc,             \* thread -> position
    stack,          \* thread -> callers' frames, innermost last
    entry,          \* thread -> the entry point the caller invoked
    arg,            \* thread -> product id of the optimize_product / decision call
    ret,            \* thread -> value or exception the last callee left
    curRun,         \* thread -> index in runs of the thread's optimize_product run
    loopIdx,        \* thread -> index in products of the per-product loop
    loopCount,      \* thread -> len(results) / products_processed of the loop
    actionsTaken,   \* thread -> results["actions_taken"] of run_optimization_cycle
    attempts,       \* history: thread -> product -> attempts in the current loop
    baseline,       \* thread -> the row make_replenishment_decision read as baseline
    reads,          \* history: baseline reads, with the row's state when read
    result,         \* thread -> dict returned by run_strategic/run_tactical
    cycle,          \* thread -> results dict of run_coordination_cycle
    steps,          \* history: thread -> steps started by the current cycle
    calls,          \* number of top-level calls issued so far
    now,            \* clock (datetime.utcnow() / time.time()), in units of 30 minutes
    ticks,          \* number of times the clock has been advanced
    gp_eims_available,            \* coordinator.py:32
    mpc_rl_available,             \* coordinator.py:40
    last_strategic_optimization,  \* coordinator.py:47
    strategicRuns,  \* history: when optimize_all_products last returned to
                    \* run_strategic_optimization, when that last returned success
    is_running,                   \* coordinator.py:54
    optimization_thread,          \* coordinator.py:55
    sched,          \* scheduler thread -> its locals (last_*, current_time)
    stopSeen        \* history: scheduler thread -> stop was called while it lived

vars == <<products, demandCount, demandHistory, inventory, productRow, recentDemand,
          cvxpy_available, config, rl_agents, state, mpc, decision, sim, search, dbParams, txParams, dbResults,
          txResults, dbActions, txActions, runs, pc, stack, entry, arg, ret,
          curRun,
          loopIdx, loopCount, actionsTaken, attempts, baseline, reads, result,
          cycle, steps, calls, now, ticks, gp_eims_available, mpc_rl_available,
          last_strategic_optimization, strategicRuns, is_running,
          optimization_thread, sched, stopSeen>>

storeVars == <<products, demandCount, demandHistory, inventory, productRow,
               recentDemand>>
configVars == <<cvxpy_available, config, rl_agents>>
tacticalVars == <<state, mpc, decision>>
paramVars == <<dbParams, txParams, dbResults, txResults>>
actionVars == <<dbActions, txActions>>
loopVars == <<loopIdx, loopCount, actionsTaken, attempts>>
coordVars == <<gp_eims_available, mpc_rl_available, last_strategic_optimization,
               strategicRuns>>
schedVars == <<is_running, optimization_thread, sched, stopSeen>>
cycleVars == <<result, cycle, steps>>
clockVars == <<now, ticks>>

\* ------------------------------------------------------------- the store
\* A Demand row: its date (a day number) and quantity_demanded.
Day(date, quantity) == [date |-> date, quantity |-> quantity]

\* A history of n days with the same demand on each, latest first
\* (order_by(Demand.date.desc()), gp_eims.py:244).
FlatHistory(n, quantity) == [i \in 1..n |-> Day(n + 1 - i, quantity)]

ProductIds == {products[i] : i \in 1..Len(products)}

\* Product.product_id == product_id ... .first()
ProductFound(id) == id \in ProductIds

\* OptimizationParameters rows of a product with is_active == True.
ActiveRows(rows, id) == {r \in rows : r.product_id = id /\ r.is_active}

\* query(OptimizationParameters).filter(product_id, is_active).update({"is_active": False})
Deactivate(rows, id) ==
    {IF r.product_id = id /\ r.is_active THEN [r EXCEPT !.is_active = FALSE] ELSE r
        : r \in rows}

\* The policy of a row whose search is not followed pass by pass.
SettledPolicy == <<10, 5, PolicyQuantity>>

\* best_params behind the search loop (gp_eims.py:399-401).
BestParams == IF search.phase = "done" THEN search.best_params ELSE SettledPolicy

\* OptimizationParameters(product_id=..., is_active=True): one row per run.
NewParams(id, run) ==
    [id |-> run, product_id |-> id, is_active |-> TRUE, run |-> run,
     reorder_point |-> BestParams[1], safety_stock |-> BestParams[2],
     order_quantity |-> BestParams[3]]

\* The gate one record off: a history of exactly MinHistory records is
\* turned away as well.
HistoryAtMostMin(id) == demandCount[id] <= MinHistory

\* len(demand_history) < 30
InsufficientHistory(id) == demandCount[id] < MinHistory

\* --------------------------------------------------------- the session
\* session.commit() that succeeds: everything the session holds becomes durable.
CommitOk(p, r, a) ==
    /\ dbParams' = p /\ txParams' = p
    /\ dbResults' = r /\ txResults' = r
    /\ dbActions' = a /\ txActions' = a

\* session.commit() that raises: SQLAlchemy rolls the transaction back and
\* re-raises; the durable store keeps its rows.
CommitFail ==
    /\ txParams' = dbParams /\ txResults' = dbResults /\ txActions' = dbActions
    /\ UNCHANGED <<dbParams, dbResults, dbActions>>

\* ------------------------------------------------------- calls, returns
\* Where a callee goes when it returns or raises: to its caller's
\* continuation, or back to the idle caller thread.
ReturnsVia(t, value, stk) ==
    /\ pc' = [pc EXCEPT ![t] = IF stk = <<>> THEN "idle" ELSE "ret"]
    /\ ret' = [ret EXCEPT ![t] = value]

Returns(t, value) == ReturnsVia(t, value, stack[t])

Frame(t) == stack[t][Len(stack[t])]

Pop(t) == SubSeq(stack[t], 1, Len(stack[t]) - 1)

SetRun(r, status) == runs' = [runs EXCEPT ![r].status = status]

\* ================================================ GPEIMSOptimizer
\* optimize_product, lines 235-248: product lookup and the history gate.
OpLookup(t) ==
    /\ pc[t] = "op_lookup"
    /\ IF ~ProductFound(arg[t])
         THEN /\ Returns(t, "ValueError_not_found")
              /\ UNCHANGED <<runs, curRun>>
         ELSE IF InsufficientHistory(arg[t])
         THEN /\ Returns(t, "null")
              /\ UNCHANGED <<runs, curRun>>
         ELSE /\ runs' = Append(runs, [product_id |-> arg[t], status |-> "running"])
              /\ curRun' = [curRun EXCEPT ![t] = Len(runs) + 1]
              /\ pc' = [pc EXCEPT ![t] = "op_search"]
              /\ UNCHANGED ret
    /\ UNCHANGED <<storeVars, configVars, tacticalVars, sim, search,
                   paramVars, actionVars, stack, entry, arg, loopVars,
                   baseline, reads, cycleVars, calls, clockVars, coordVars, schedVars>>

\* optimize_product, lines 250-393: statistics, bounds, the initial guess
\* (a read of the active row through the session) and the search loop.
\* Nothing is written to the session here.
OpSearch(t) ==
    /\ pc[t] = "op_search"
    /\ pc' = [pc EXCEPT ![t] = "op_deactivate"]
    /\ UNCHANGED <<storeVars, configVars, tacticalVars, sim, search,
                   paramVars, actionVars, runs, stack, entry, arg, ret,
                   curRun, loopVars, baseline, reads, cycleVars, calls, clockVars,
                   coordVars, schedVars>>

\* optimize_product, lines 409-413: the UPDATE runs at once, inside the
\* session's open transaction.
OpDeactivate(t) ==
    /\ pc[t] = "op_deactivate"
    /\ txParams' = Deactivate(txParams, arg[t])
    /\ pc' = [pc EXCEPT ![t] = "op_add"]
    /\ UNCHANGED <<storeVars, configVars, tacticalVars, sim, search,
                   dbParams, dbResults, txResults, actionVars, runs, stack,
                   entry, arg, ret, curRun, loopVars, baseline, reads, cycleVars,
                   calls, clockVars, coordVars, schedVars>>

\* optimize_product, line 415: session.add(opt_params).
OpAdd(t) ==
    /\ pc[t] = "op_add"
    /\ txParams' = txParams \cup {NewParams(arg[t], curRun[t])}
    /\ pc' = [pc EXCEPT ![t] = "op_result"]
    /\ UNCHANGED <<storeVars, configVars, tacticalVars, sim, search,
                   dbParams, dbResults, txResults, actionVars, runs,
                   stack, entry, arg, ret, curRun, loopVars, baseline, reads,
                   cycleVars, calls, clockVars, coordVars, schedVars>>

\* OptimizationResults(...), gp_eims.py:418-427, with the parameters handed to
\* set_parameters (429-433), for the locals s of the search.
OptResult(s, run) ==
    [run_id |-> run, objective_value |-> s.best_value, constraints_satisfied |-> TRUE,
     convergence_iterations |-> s.y_observed.len, parameters |-> s.best_params]

\* The locals once opt_result is built; a search that is not followed pass by
\* pass has none.
Recorded(s, run) ==
    IF s.phase = "done"
      THEN [s EXCEPT !.phase = "recorded", !.opt_result = OptResult(s, run)]
      ELSE s

\* optimize_product, lines 417-438: the OptimizationResults row.  set_parameters
\* is json.dumps (models.py:98-100) of a dict that holds demand_stats, whose
\* max_demand and min_demand are np.max / np.min of the demand column
\* (lines 255-256).  For integer demand (Demand.quantity_demanded is an Integer
\* column, models.py:53) these are numpy integers and json.dumps raises
\* TypeError; for float demand it does not.  The exception leaves the function
\* with the UPDATE done and opt_params pending in the session.
OpResult(t) ==
    /\ pc[t] = "op_result"
    /\ \E raises \in BOOLEAN :
         IF raises
           THEN /\ SetRun(curRun[t], "raised")
                /\ Returns(t, "exception")
                /\ search' = NoSearch
                /\ UNCHANGED txResults
           ELSE /\ txResults' = txResults \cup {curRun[t]}
                /\ search' = Recorded(search, curRun[t])
                /\ pc' = [pc EXCEPT ![t] = "op_commit"]
                /\ UNCHANGED <<runs, ret>>
    /\ UNCHANGED <<storeVars, configVars, tacticalVars, sim,
                   dbParams, txParams, dbResults, actionVars, stack,
                   entry, arg, curRun, loopVars, baseline, reads, cycleVars, calls,
                   clockVars, coordVars, schedVars>>

\* optimize_product, lines 439-445: session.commit() and return opt_params;
\* the locals of the run are gone with the return.
OpCommit(t) ==
    /\ pc[t] = "op_commit"
    /\ \E fails \in BOOLEAN :
         IF fails
           THEN /\ CommitFail
                /\ SetRun(curRun[t], "raised")
                /\ Returns(t, "exception")
           ELSE /\ CommitOk(txParams, txResults, txActions)
                /\ SetRun(curRun[t], "ok")
                /\ Returns(t, "params")
    /\ search' = NoSearch
    /\ UNCHANGED <<storeVars, configVars, tacticalVars, sim,
                   stack, entry, arg, curRun, loopVars, baseline, reads,
                   cycleVars, calls, clockVars, coordVars, schedVars>>

\* ================================================ Inventory, InventoryState
\* The available stock with the reservation left out.
AvailableIgnoringReserved(stock, reserved) == stock

\* self.available_stock = current_stock - reserved_stock (mpc_rl_mobo.py:39);
\* available_stock=base_stock - reserved_stock (data_generator.py:151).
AvailableStock(stock, reserved) == stock - reserved

\* Inventory(product_id=..., stock_level=..., reserved_stock=..., in_transit=...,
\* available_stock=...): four independent columns (models.py:38-41).
InventoryRow(id, stock, reserved, transit, available) ==
    [product_id |-> id, stock_level |-> stock, reserved_stock |-> reserved,
     in_transit |-> transit, available_stock |-> available]

InventoryRows == {inventory[i] : i \in 1..Len(inventory)}

\* Product ids that have an Inventory row.
inventoryIds == {r.product_id : r \in InventoryRows}

\* query(Inventory).filter(product_id).order_by(timestamp.desc()).first()
LatestInventory(id) ==
    LET idx == {i \in 1..Len(inventory) : inventory[i].product_id = id}
    IN  inventory[CHOOSE i \in idx : \A j \in idx : j <= i]

\* seq[-n:]
LastN(seq, n) ==
    IF Len(seq) <= n THEN seq ELSE SubSeq(seq, Len(seq) - n + 1, Len(seq))

\* InventoryState.__init__, mpc_rl_mobo.py:33-47: the arguments are stored as
\* given, the available stock is derived, the demand is cut to 7 entries.
InventoryState(id, current_stock, reserved_stock, in_transit, recent_demand, lead_time) ==
    [product_id |-> id, current_stock |-> current_stock,
     reserved_stock |-> reserved_stock, in_transit |-> in_transit,
     available_stock |-> AvailableStock(current_stock, reserved_stock),
     recent_demand |-> LastN(recent_demand, 7), lead_time |-> lead_time]

\* No InventoryState (get_current_state returned None, or none was built).
NoState == [product_id |-> None]

\* get_current_state, mpc_rl_mobo.py:446-475, for an id with an Inventory row.
GetCurrentState(id) ==
    LET row == LatestInventory(id)
    IN  InventoryState(id, row.stock_level, row.reserved_stock, row.in_transit,
                       IF ProductFound(id) THEN recentDemand[id] ELSE <<>>,
                       IF ProductFound(id) THEN productRow[id].lead_time_days ELSE 7)

\* np.random.randint(0, high): the two ends of what it can draw.
Draws(high) == {0, high - 1}

\* np.random.randint(50, 500), its low end (data_generator.py:142).
BaseStocks == {50}

\* generate_initial_inventory, data_generator.py:140-152: what it draws for
\* one product.
GeneratedStock ==
    UNION {{[base |-> b, reserved |-> r, in_transit |-> i] :
               r \in Draws(b \div 10), i \in Draws(b \div 5)} : b \in BaseStocks}

\* generate_initial_inventory (data_generator.py:136-156) with
\* populate_database (lines 199-201): one row per product, merged and committed.
GenerateInitialInventory(t) ==
    /\ pc[t] = "idle" /\ calls < MaxCalls
    /\ calls' = calls + 1
    /\ entry' = [entry EXCEPT ![t] = "generate_initial_inventory"]
    /\ \E g \in [1..Len(products) -> GeneratedStock] :
         inventory' = inventory \o
             [i \in 1..Len(products) |->
                 InventoryRow(products[i], g[i].base, g[i].reserved, g[i].in_transit,
                              AvailableStock(g[i].base, g[i].reserved))]
    /\ UNCHANGED <<products, demandCount, demandHistory, productRow, recentDemand, configVars,
                   tacticalVars, sim, search, paramVars, actionVars, runs, pc, stack, arg,
                   ret, curRun, loopVars, baseline, reads, cycleVars, clockVars,
                   coordVars, schedVars>>

\* row['shopify_units_sold'] of an uploaded sheet, in tenths of a unit.
UnitsSoldTenths == {125, 500010}

\* int(row['shopify_units_sold'] * 2), app.py:258 and 261.
EstimatedStock(tenths) == (tenths * 2) \div 10

\* The upload of a sales sheet, app.py:255-263: the stock is estimated from
\* the units sold, nothing is reserved, and available_stock is written with
\* the same estimate.
LoadInventory(t, id) ==
    /\ pc[t] = "idle" /\ calls < MaxCalls
    /\ calls' = calls + 1
    /\ entry' = [entry EXCEPT ![t] = "load_inventory"]
    /\ \E u \in UnitsSoldTenths :
         inventory' = Append(inventory,
             InventoryRow(id, EstimatedStock(u), 0, 0, EstimatedStock(u)))
    /\ UNCHANGED <<products, demandCount, demandHistory, productRow, recentDemand, configVars,
                   tacticalVars, sim, search, paramVars, actionVars, runs, pc, stack, arg,
                   ret, curRun, loopVars, baseline, reads, cycleVars, clockVars,
                   coordVars, schedVars>>

\* Stock figures a caller hands to the InventoryState constructor.
StockFigures == {50, 60}

\* InventoryState(product_id, current_stock, reserved_stock, ...) called by a
\* client of the module (mpc_rl_mobo.py:33-47 is a public constructor).
NewInventoryState(t, id) ==
    /\ pc[t] = "idle" /\ calls < MaxCalls
    /\ calls' = calls + 1
    /\ entry' = [entry EXCEPT ![t] = "InventoryState"]
    /\ \E stock \in StockFigures, reserved \in StockFigures :
         state' = [state EXCEPT ![t] = InventoryState(id, stock, reserved, 0, <<>>, 7)]
    /\ UNCHANGED <<storeVars, configVars, mpc, decision, sim, search, paramVars, actionVars,
                   runs, pc, stack, arg, ret, curRun, loopVars, baseline, reads,
                   cycleVars, clockVars, coordVars, schedVars>>

\* ================================================ MPCController
RECURSIVE Sum(_)
Sum(seq) == IF seq = <<>> THEN 0 ELSE seq[1] + Sum(Tail(seq))

\* np.mean of a non-empty list.  The demand lists of the model hold one value
\* repeated (see FlatDemand), so the mean is that value and np.std is 0.
Mean(seq) == Sum(seq) \div Len(seq)

Max(a, b) == IF a >= b THEN a ELSE b
Min(a, b) == IF a <= b THEN a ELSE b

\* predict_demand, mpc_rl_mobo.py:74-99, for the recent_demand of an
\* InventoryState: at most 7 entries, so line 82 is false and trend is 0.
PredictDemand(hist) ==
    LET level == IF Len(hist) < 3
                   THEN Max(1, IF hist = <<>> THEN 10 ELSE Mean(hist))
                   ELSE Max(0, Mean(LastN(hist, 7)))
    IN  [i \in 1..PredictionHorizon |-> level]

\* _solve_mpc_fallback, line 221.
AvgDemand(hist) == IF hist = <<>> THEN 1 ELSE Mean(hist)

\* _solve_mpc_fallback, lines 222-239: z_score * demand_std * sqrt(lead time),
\* with np.std = 0 for the lists of the model.
SafetyStock(hist, lead) == 0

\* _solve_mpc_fallback, line 240.
ReorderPoint(hist, lead) == AvgDemand(hist) * lead + SafetyStock(hist, lead)

\* _solve_mpc_fallback, lines 243-263: the order of step t (0-based as in the
\* code) and the running inventory behind it.
RECURSIVE FallbackOrders(_, _, _, _, _)
FallbackOrders(t, current_inventory, orders, st, prod) ==
    IF t >= ControlHorizon THEN orders
    ELSE
      LET forecast == PredictDemand(st.recent_demand)[t + 1]
          reorder_point == ReorderPoint(st.recent_demand, prod.lead_time_days)
          projected == current_inventory - forecast
          target_stock == reorder_point + AvgDemand(st.recent_demand) * 7
          wanted == Max(0, target_stock - projected)
          order_qty == IF projected <= reorder_point
                         THEN IF wanted > 0
                                THEN Min(prod.max_order_quantity,
                                         Max(prod.min_order_quantity, wanted))
                                ELSE wanted
                         ELSE 0
      IN  FallbackOrders(t + 1, Max(0, current_inventory + order_qty - forecast),
                         Append(orders, order_qty), st, prod)

\* _solve_mpc_fallback, lines 266-276: inventory_levels and stockouts, both
\* extended by one entry per step.  An order of step t arrives at step t when
\* t >= lead_time_days.
RECURSIVE FallbackLevels(_, _, _, _, _, _)
FallbackLevels(t, levels, stockouts, orders, st, prod) ==
    IF t >= PredictionHorizon
      THEN [predicted_inventory |-> levels, predicted_stockouts |-> stockouts]
    ELSE
      LET order_arrival == IF t < ControlHorizon /\ t >= prod.lead_time_days
                             THEN orders[t + 1] ELSE 0
          level == levels[t + 1] + order_arrival - PredictDemand(st.recent_demand)[t + 1]
      IN  FallbackLevels(t + 1, Append(levels, Max(0, level)),
                         Append(stockouts, IF level < 0 THEN 0 - level ELSE 0),
                         orders, st, prod)

\* The status with which _solve_mpc_fallback would pass for the solver.
FallbackStatusOptimal == "optimal"

\* _solve_mpc_fallback, line 290.
FallbackStatus == "heuristic_fallback"

\* _solve_mpc_fallback, lines 211-298.
SolveMpcFallback(st, prod) ==
    LET orders == FallbackOrders(0, st.available_stock, <<>>, st, prod)
        traj == FallbackLevels(0, <<st.available_stock>>, <<>>, orders, st, prod)
    IN  [status |-> FallbackStatus, order_quantities |-> orders,
         predicted_inventory |-> traj.predicted_inventory,
         predicted_stockouts |-> traj.predicted_stockouts]

\* Quantities the solver is let to order on a day.
SolverQuantities == {0, 1}

\* The values order_quantities can take: ControlHorizon integers between 0 and
\* max_order_quantity (lines 115 and 153-155).
SolverPlans(prod) ==
    [1..ControlHorizon -> {q \in SolverQuantities : q <= prod.max_order_quantity}]

\* solve_mpc, lines 128-149: inventory_levels and stockouts of a plan.  An
\* order of step t < ControlHorizon arrives at step t when
\* t >= lead_time_days; stockouts[t] is the least value lines 135-149
\* allow, which is what the objective (lines 171, 178) settles on.
RECURSIVE SolverLevels(_, _, _, _, _, _)
SolverLevels(t, levels, stockouts, plan, st, prod) ==
    IF t >= PredictionHorizon
      THEN [predicted_inventory |-> levels, predicted_stockouts |-> stockouts]
    ELSE
      LET forecast == PredictDemand(st.recent_demand)[t + 1]
          order_arrival == IF t < ControlHorizon /\ t >= prod.lead_time_days
                             THEN plan[t + 1] ELSE 0
          unmet == Max(0, forecast - levels[t + 1])
      IN  SolverLevels(t + 1,
                       Append(levels, levels[t + 1] + order_arrival - forecast + unmet),
                       Append(stockouts, unmet), plan, st, prod)

SolverTrajectory(plan, st, prod) ==
    SolverLevels(0, <<st.available_stock>>, <<>>, plan, st, prod)

\* solve_mpc, lines 161-163: inventory_levels[t] <= warehouse_capacity for
\* t in range(prediction_horizon).
WithinCapacity(levels) ==
    \A t \in 0..(PredictionHorizon - 1) : levels[t + 1] <= WarehouseCapacity

\* solve_mpc, lines 186-203: the result for a plan the solver found, with
\* the orders below min_order_quantity raised to it (lines 192-194) and the
\* trajectory left as the solver had it.
OptimalResult(plan, st, prod) ==
    [status |-> "optimal",
     order_quantities |->
         [t \in 1..ControlHorizon |->
             IF plan[t] > 0 /\ plan[t] < prod.min_order_quantity
               THEN prod.min_order_quantity ELSE plan[t]],
     predicted_inventory |-> SolverTrajectory(plan, st, prod).predicted_inventory,
     predicted_stockouts |-> SolverTrajectory(plan, st, prod).predicted_stockouts]

\* The results without a plan (lines 205-209), and solve_mpc raising while it
\* builds the problem (lines 111-181 are outside its try).
Infeasible == [status |-> "infeasible"]
SolverError == [status |-> "error"]
SolverRaise == [status |-> "raise"]

\* No mpc_result yet.
NoMpc == [status |-> None]

\* solve_mpc, mpc_rl_mobo.py:101-209: everything it can hand back for a state.
SolveMpc(st, prod) ==
    IF ~cvxpy_available
      THEN {SolveMpcFallback(st, prod)}
      ELSE {Infeasible, SolverError, SolverRaise}
           \cup {OptimalResult(plan, st, prod) : plan \in
                   {p \in SolverPlans(prod) :
                       WithinCapacity(SolverTrajectory(p, st, prod).predicted_inventory)}}

\* Does the result carry an order plan.
HasPlan(r) == r.status \in {"optimal", FallbackStatus}

\* ================================================ RLAgent
\* action_space = [0, 0.5, 1.0, 1.5, 2.0] (mpc_rl_mobo.py:323), as indices.
ActionIndices == 0..4

\* int(base_order_quantity * multiplier), mpc_rl_mobo.py:348-349: the
\* multiplier of index i is i / 2, and int() drops the half.
FinalQuantity(base, idx) == (base * idx) \div 2

\* RLAgent(), mpc_rl_mobo.py:303-323, as get_or_create_agent makes it: the
\* scaler is not fitted.  q stands for np.dot(state_normalized,
\* q_weights[:, 0]) once it is.
NewAgent == [is_fitted |-> FALSE, q |-> 0]

\* The Q-value with a weight vector of its own for each action.
GetQValueOfAction(agent, action_idx) ==
    IF ~agent.is_fitted THEN 0 ELSE agent.q * action_idx

\* get_q_value, mpc_rl_mobo.py:325-331: 0.0 before the scaler is fitted, then
\* the product of the state with q_weights[:, 0], here agent.q; action_idx
\* is not read.
GetQValue(agent, action_idx) ==
    IF ~agent.is_fitted THEN 0 ELSE agent.q

\* select_action, mpc_rl_mobo.py:339-351: the indices it can return with
\* their quantities.  An exploration step draws any index (341); the greedy
\* branch takes np.argmax of the five Q-values, the first index of the
\* greatest (343-345).
SelectAction(agent, base_order_quantity, explore) ==
    LET greedy == CHOOSE i \in ActionIndices :
                      /\ \A j \in ActionIndices : GetQValue(agent, j) <= GetQValue(agent, i)
                      /\ \A j \in ActionIndices :
                            j < i => GetQValue(agent, j) < GetQValue(agent, i)
    IN  {[rl_action_index |-> idx,
          quantity |-> FinalQuantity(base_order_quantity, idx)] :
            idx \in IF explore THEN ActionIndices ELSE {greedy}}

\* No select_action result yet.
NoDecision == [rl_action_index |-> None]

\* ================================================ MPCRLMOBOController
\* The state of a row when it is read as baseline: is it durable, and how did
\* the optimize_product run that created it end (rows that predate the
\* behaviour come from a completed run, run 0).
CreatorStatus(r) == IF r.run = 0 THEN "ok" ELSE runs[r.run].status

ReadRecord(r) ==
    [row |-> r.id, durable |-> r \in dbParams, creator |-> CreatorStatus(r)]

\* InventoryActions(product_id=..., quantity=final_order_quantity, ...)
NewAction(id, rows, quantity) ==
    [id |-> Cardinality(rows) + 1, product_id |-> id, timestamp |-> now,
     quantity |-> quantity]

\* make_replenishment_decision, lines 481-484, with get_current_state
\* (446-475): no Inventory row for the id gives None.
DeState(t) ==
    /\ pc[t] = "de_state"
    /\ mpc' = [mpc EXCEPT ![t] = NoMpc]
    /\ decision' = [decision EXCEPT ![t] = NoDecision]
    /\ IF arg[t] \notin inventoryIds
         THEN /\ state' = [state EXCEPT ![t] = NoState]
              /\ Returns(t, "null")
         ELSE /\ state' = [state EXCEPT ![t] = GetCurrentState(arg[t])]
              /\ pc' = [pc EXCEPT ![t] = "de_params"]
              /\ UNCHANGED ret
    /\ UNCHANGED <<storeVars, configVars, sim, search, paramVars, actionVars, runs, stack,
                   entry, arg, curRun, loopVars, baseline, reads, cycleVars, calls,
                   clockVars, coordVars, schedVars>>

\* make_replenishment_decision, lines 486-494: the product and its active
\* row, read through the session (so with every uncommitted change in it).
DeParams(t) ==
    /\ pc[t] = "de_params"
    /\ IF ~ProductFound(arg[t]) \/ ActiveRows(txParams, arg[t]) = {}
         THEN /\ Returns(t, "null")
              /\ UNCHANGED <<baseline, reads>>
         ELSE /\ \E r \in ActiveRows(txParams, arg[t]) :
                    /\ baseline' = [baseline EXCEPT ![t] = r.id]
                    /\ reads' = reads \cup {ReadRecord(r)}
              /\ pc' = [pc EXCEPT ![t] = "de_mpc"]
              /\ UNCHANGED ret
    /\ UNCHANGED <<storeVars, configVars, tacticalVars, sim, search,
                   paramVars, actionVars, runs, stack, entry, arg,
                   curRun, loopVars, cycleVars, calls, clockVars, coordVars, schedVars>>

\* The check of line 499 that lets every result through but "error".
MpcFailedOnlyOnError(status) == status = "error"

\* The check of line 499 that lets the plan of the fallback through as well.
MpcFailedWithoutPlan(status) == status \notin {"optimal", "heuristic_fallback"}

\* mpc_result["status"] != "optimal", mpc_rl_mobo.py:499.
MpcFailed(status) == status # "optimal"

\* make_replenishment_decision, lines 496-501: solve_mpc, and anything but
\* "optimal" gives None.
DeMpc(t) ==
    /\ pc[t] = "de_mpc"
    /\ \E r \in SolveMpc(state[t], productRow[arg[t]]) :
         /\ mpc' = [mpc EXCEPT ![t] = r]
         /\ IF r = SolverRaise THEN Returns(t, "exception")
            ELSE IF MpcFailed(r.status) THEN Returns(t, "null")
            ELSE /\ pc' = [pc EXCEPT ![t] = "de_emit"]
                 /\ UNCHANGED ret
    /\ UNCHANGED <<storeVars, configVars, state, decision, sim, search, paramVars,
                   actionVars, runs, stack, entry, arg, curRun, loopVars, baseline,
                   reads, cycleVars, calls, clockVars, coordVars, schedVars>>

\* The test of line 518 with >= in place of >.
EmitsAtZero(quantity) == quantity >= 0

\* if final_order_quantity > 0, mpc_rl_mobo.py:518.
Emits(quantity) == quantity > 0

\* make_replenishment_decision, lines 503-544: the baseline is the first
\* order of the plan; select_action explores or not (np.random.random() <
\* epsilon, line 339, with epsilon kept in [0.01, 1) by line 426) and scales
\* the baseline; a positive quantity is made a row, added and committed,
\* anything else gives None.
DeEmit(t) ==
    /\ pc[t] = "de_emit"
    /\ \E explore \in BOOLEAN, outcome \in {"ok", "commit_fails"} :
         LET base == mpc[t].order_quantities[1]
         IN  \E selected \in SelectAction(rl_agents[arg[t]], base, explore) :
               LET final == selected.quantity
               IN  /\ decision' = [decision EXCEPT ![t] =
                          [mpc_recommendation |-> base,
                           rl_action_index |-> selected.rl_action_index,
                           quantity |-> final, explored |-> explore]]
                   /\ IF ~Emits(final)
                        THEN /\ outcome = "ok"
                             /\ Returns(t, "null")
                             /\ UNCHANGED <<paramVars, actionVars>>
                        ELSE IF outcome = "commit_fails"
                        THEN /\ CommitFail
                             /\ Returns(t, "exception")
                        ELSE /\ CommitOk(txParams, txResults,
                                         txActions \cup {NewAction(arg[t], txActions, final)})
                             /\ Returns(t, "action")
    /\ UNCHANGED <<storeVars, configVars, state, mpc, sim, search, runs, stack, entry, arg,
                   curRun, loopVars, baseline, reads, cycleVars, calls, clockVars,
                   coordVars, schedVars>>

\* optimize_all_products, lines 451-454: the product list.  The query is the
\* first statement that can raise (a database error); nothing catches it here.
AllStart(t) ==
    /\ pc[t] = "all_start"
    /\ \E fails \in BOOLEAN :
         IF fails
           THEN /\ Returns(t, "exception")
                /\ UNCHANGED loopVars
           ELSE /\ loopIdx' = [loopIdx EXCEPT ![t] = 1]
                /\ loopCount' = [loopCount EXCEPT ![t] = 0]
                /\ attempts' = [attempts EXCEPT ![t] = [i \in 1..Len(products) |-> 0]]
                /\ pc' = [pc EXCEPT ![t] = "all_loop"]
                /\ UNCHANGED <<ret, actionsTaken>>
    /\ UNCHANGED <<storeVars, configVars, tacticalVars, sim, search,
                   paramVars, actionVars, runs, stack, entry, arg,
                   curRun, baseline, reads, cycleVars, calls, clockVars, coordVars,
                   schedVars>>

\* optimize_all_products, lines 456-460 and 467-468: the next product is
\* handed to optimize_product, or the loop is over and results is returned.
AllLoop(t) ==
    /\ pc[t] = "all_loop"
    /\ IF loopIdx[t] <= Len(products)
         THEN /\ attempts' = [attempts EXCEPT ![t][loopIdx[t]] = @ + 1]
              /\ arg' = [arg EXCEPT ![t] = products[loopIdx[t]]]
              /\ stack' = [stack EXCEPT ![t] = Append(@, "optimize_all_products")]
              /\ pc' = [pc EXCEPT ![t] = "op_lookup"]
              /\ UNCHANGED ret
         ELSE /\ Returns(t, "list")
              /\ UNCHANGED <<attempts, arg, stack>>
    /\ UNCHANGED <<storeVars, configVars, tacticalVars, sim, search,
                   paramVars, actionVars, runs, entry, curRun, loopIdx,
                   loopCount, actionsTaken, baseline, reads, cycleVars, calls, clockVars,
                   coordVars, schedVars>>

\* A loop body without the try/except: nothing is caught.
LoopCatchesNothing(value) == FALSE

\* Does the per-product try/except of the two loops catch what the callee
\* raised (gp_eims.py:463-465, mpc_rl_mobo.py:638-640: except Exception, continue).
LoopCatches(value) == value \in {"exception", "ValueError_not_found"}

Raised(value) == value \in {"exception", "ValueError_not_found"}

\* optimize_all_products, lines 461-465: a result is appended, None is
\* dropped, an exception is printed; then the loop goes on.
AllAfter(t) ==
    /\ pc[t] = "ret" /\ Frame(t) = "optimize_all_products"
    /\ stack' = [stack EXCEPT ![t] = Pop(t)]
    /\ IF Raised(ret[t]) /\ ~LoopCatches(ret[t])
         THEN /\ ReturnsVia(t, "exception", Pop(t))
              /\ UNCHANGED <<loopIdx, loopCount>>
         ELSE /\ loopCount' = [loopCount EXCEPT ![t] = IF ret[t] = "params" THEN @ + 1 ELSE @]
              /\ loopIdx' = [loopIdx EXCEPT ![t] = @ + 1]
              /\ pc' = [pc EXCEPT ![t] = "all_loop"]
              /\ UNCHANGED ret
    /\ UNCHANGED <<storeVars, configVars, tacticalVars, sim, search,
                   paramVars, actionVars, runs, entry, arg, curRun,
                   actionsTaken, attempts, baseline, reads, cycleVars, calls, clockVars,
                   coordVars, schedVars>>

\* run_optimization_cycle, lines 608-617.
TcStart(t) ==
    /\ pc[t] = "tc_start"
    /\ \E fails \in BOOLEAN :
         IF fails
           THEN /\ Returns(t, "exception")
                /\ UNCHANGED loopVars
           ELSE /\ loopIdx' = [loopIdx EXCEPT ![t] = 1]
                /\ loopCount' = [loopCount EXCEPT ![t] = 0]
                /\ actionsTaken' = [actionsTaken EXCEPT ![t] = 0]
                /\ attempts' = [attempts EXCEPT ![t] = [i \in 1..Len(products) |-> 0]]
                /\ pc' = [pc EXCEPT ![t] = "tc_loop"]
                /\ UNCHANGED ret
    /\ UNCHANGED <<storeVars, configVars, tacticalVars, sim, search,
                   paramVars, actionVars, runs, stack, entry, arg,
                   curRun, baseline, reads, cycleVars, calls, clockVars, coordVars,
                   schedVars>>

\* run_optimization_cycle, lines 619-622: the next product's decision, or on
\* to the metrics.
TcLoop(t) ==
    /\ pc[t] = "tc_loop"
    /\ IF loopIdx[t] <= Len(products)
         THEN /\ attempts' = [attempts EXCEPT ![t][loopIdx[t]] = @ + 1]
              /\ arg' = [arg EXCEPT ![t] = products[loopIdx[t]]]
              /\ stack' = [stack EXCEPT ![t] = Append(@, "run_optimization_cycle")]
              /\ pc' = [pc EXCEPT ![t] = "de_state"]
         ELSE /\ pc' = [pc EXCEPT ![t] = "tc_metrics"]
              /\ UNCHANGED <<attempts, arg, stack>>
    /\ UNCHANGED <<storeVars, configVars, tacticalVars, sim, search,
                   paramVars, actionVars, runs, entry, ret, curRun,
                   loopIdx, loopCount, actionsTaken, baseline, reads, cycleVars,
                   calls, clockVars, coordVars, schedVars>>

\* run_optimization_cycle, lines 624-631 and 638-640.  The locals of the
\* decision that returned are gone.
TcAfter(t) ==
    /\ pc[t] = "ret" /\ Frame(t) = "run_optimization_cycle"
    /\ stack' = [stack EXCEPT ![t] = Pop(t)]
    /\ IF Raised(ret[t])
         THEN IF LoopCatches(ret[t])
                THEN /\ loopIdx' = [loopIdx EXCEPT ![t] = @ + 1]
                     /\ pc' = [pc EXCEPT ![t] = "tc_loop"]
                     /\ UNCHANGED <<ret, actionsTaken>>
                ELSE /\ ReturnsVia(t, "exception", Pop(t))
                     /\ UNCHANGED <<loopIdx, actionsTaken>>
         ELSE /\ actionsTaken' = [actionsTaken EXCEPT ![t] =
                                      IF ret[t] = "action" THEN @ + 1 ELSE @]
              /\ pc' = [pc EXCEPT ![t] = "tc_learn"]
              /\ UNCHANGED <<ret, loopIdx>>
    /\ state' = [state EXCEPT ![t] = NoState]
    /\ mpc' = [mpc EXCEPT ![t] = NoMpc]
    /\ decision' = [decision EXCEPT ![t] = NoDecision]
    /\ UNCHANGED <<storeVars, configVars, sim, search,
                   paramVars, actionVars, runs, entry, arg, curRun,
                   loopCount, attempts, baseline, reads, cycleVars, calls, clockVars,
                   coordVars, schedVars>>

\* InventoryActions of the product with timestamp >= utcnow() - 7 days.
RecentWindow == 336
RecentActions(rows, id) ==
    {a \in rows : a.product_id = id /\ a.timestamp >= now - RecentWindow}

\* run_optimization_cycle, lines 633-636, with update_agent_learning
\* (546-602): fewer than two recent actions and it returns at once; else it
\* sets the rewards and commits the session.  A commit that raises is caught
\* by the loop's handler and products_processed is not advanced.
TcLearn(t) ==
    /\ pc[t] = "tc_learn"
    /\ \E fails \in BOOLEAN :
         IF Cardinality(RecentActions(txActions, arg[t])) < 2
           THEN /\ fails = FALSE
                /\ loopCount' = [loopCount EXCEPT ![t] = @ + 1]
                /\ UNCHANGED <<paramVars, actionVars>>
           ELSE IF fails
           THEN /\ CommitFail
                /\ UNCHANGED loopCount
           ELSE /\ CommitOk(txParams, txResults, txActions)
                /\ loopCount' = [loopCount EXCEPT ![t] = @ + 1]
    /\ loopIdx' = [loopIdx EXCEPT ![t] = @ + 1]
    /\ pc' = [pc EXCEPT ![t] = "tc_loop"]
    /\ UNCHANGED <<storeVars, configVars, tacticalVars, sim, search,
                   runs, stack, entry, arg, ret, curRun, actionsTaken,
                   attempts, baseline, reads, cycleVars, calls, clockVars, coordVars,
                   schedVars>>

\* run_optimization_cycle, lines 642-674: the metrics rows and the commit.
TcMetrics(t) ==
    /\ pc[t] = "tc_metrics"
    /\ \E fails \in BOOLEAN :
         IF fails
           THEN /\ CommitFail
                /\ Returns(t, "exception")
           ELSE /\ CommitOk(txParams, txResults, txActions)
                /\ Returns(t, "results")
    /\ UNCHANGED <<storeVars, configVars, tacticalVars, sim, search,
                   runs, stack, entry, arg, curRun, loopVars, baseline,
                   reads, cycleVars, calls, clockVars, coordVars, schedVars>>

\* ================================================ OptimizationCoordinator
\* Times are counted in units of 30 minutes, the default tactical interval
\* (coordinator.py:335): 7 days (lines 48-50 and 350), 24 hours (line 352).
StrategicInterval == 336
CoordinationInterval == 48
TacticalInterval == 1

\* The comparison of line 63 with > in place of >=.
ShouldRunStrategicLater ==
    \/ last_strategic_optimization = NeverRun
    \/ now - last_strategic_optimization > StrategicInterval

\* should_run_strategic_optimization, coordinator.py:57-63.
ShouldRunStrategic ==
    \/ last_strategic_optimization = NeverRun
    \/ now - last_strategic_optimization >= StrategicInterval

\* The dicts run_strategic_optimization returns (lines 71-75, 90-96, 122-127).
StrategicUnavailable == [status |-> "unavailable", products_optimized |-> 0]
StrategicSuccess(n) == [status |-> "success", products_optimized |-> n]
ErrorResult == [status |-> "error"]

\* The dict run_tactical_optimization returns (mpc_rl_mobo.py:609-615 with
\* coordinator.py:138-139).
TacticalSuccess(processed, taken) ==
    [status |-> "success", products_processed |-> processed, actions_taken |-> taken]

\* run_strategic_optimization, lines 69-82.
StStart(t) ==
    /\ pc[t] = "st_start"
    /\ IF ~gp_eims_available
         THEN /\ result' = [result EXCEPT ![t] = StrategicUnavailable]
              /\ Returns(t, "result")
              /\ UNCHANGED stack
         ELSE /\ stack' = [stack EXCEPT ![t] = Append(@, "run_strategic_optimization")]
              /\ pc' = [pc EXCEPT ![t] = "all_start"]
              /\ UNCHANGED <<ret, result>>
    /\ UNCHANGED <<storeVars, configVars, tacticalVars, sim, search,
                   paramVars, actionVars, runs, entry, arg, curRun,
                   loopVars, baseline, reads, cycle, steps, calls, clockVars, coordVars,
                   schedVars>>

\* run_strategic_optimization, line 85 (optimize_all_products returned: the
\* time of the last optimization is set) or lines 121-129 (it raised).
StAfter(t) ==
    /\ pc[t] = "ret" /\ Frame(t) = "run_strategic_optimization"
    /\ stack' = [stack EXCEPT ![t] = Pop(t)]
    /\ IF Raised(ret[t])
         THEN /\ result' = [result EXCEPT ![t] = ErrorResult]
              /\ ReturnsVia(t, "result", Pop(t))
              /\ UNCHANGED <<last_strategic_optimization, strategicRuns>>
         ELSE /\ last_strategic_optimization' = now
              /\ strategicRuns' = [strategicRuns EXCEPT !.returned = now]
              /\ pc' = [pc EXCEPT ![t] = "st_commit"]
              /\ UNCHANGED <<ret, result>>
    /\ UNCHANGED <<storeVars, configVars, tacticalVars, sim, search,
                   paramVars, actionVars, runs, entry, arg, curRun,
                   loopVars, baseline, reads, cycle, steps, calls, clockVars,
                   gp_eims_available, mpc_rl_available, schedVars>>

\* run_strategic_optimization, lines 87-129: the result dict, the metrics
\* rows and session.commit(); a commit that raises is caught at line 121.
StCommit(t) ==
    /\ pc[t] = "st_commit"
    /\ \E fails \in BOOLEAN :
         IF fails
           THEN /\ CommitFail
                /\ result' = [result EXCEPT ![t] = ErrorResult]
                /\ UNCHANGED strategicRuns
           ELSE /\ CommitOk(txParams, txResults, txActions)
                /\ result' = [result EXCEPT ![t] = StrategicSuccess(loopCount[t])]
                /\ strategicRuns' = [strategicRuns EXCEPT !.succeeded = now]
    /\ Returns(t, "result")
    /\ UNCHANGED <<storeVars, configVars, tacticalVars, sim, search,
                   runs, stack, entry, arg, curRun, loopVars, baseline,
                   reads, cycle, steps, calls, clockVars, gp_eims_available,
                   mpc_rl_available, last_strategic_optimization, schedVars>>

\* run_tactical_optimization, lines 135-137.  With mpc_rl_controller None the
\* attribute access raises inside the try and the handler returns the error.
TaStart(t) ==
    /\ pc[t] = "ta_start"
    /\ IF ~mpc_rl_available
         THEN /\ result' = [result EXCEPT ![t] = ErrorResult]
              /\ Returns(t, "result")
              /\ UNCHANGED stack
         ELSE /\ stack' = [stack EXCEPT ![t] = Append(@, "run_tactical_optimization")]
              /\ pc' = [pc EXCEPT ![t] = "tc_start"]
              /\ UNCHANGED <<ret, result>>
    /\ UNCHANGED <<storeVars, configVars, tacticalVars, sim, search,
                   paramVars, actionVars, runs, entry, arg, curRun,
                   loopVars, baseline, reads, cycle, steps, calls, clockVars, coordVars,
                   schedVars>>

\* run_tactical_optimization, lines 138-151.
TaAfter(t) ==
    /\ pc[t] = "ret" /\ Frame(t) = "run_tactical_optimization"
    /\ stack' = [stack EXCEPT ![t] = Pop(t)]
    /\ result' = [result EXCEPT ![t] =
                     IF Raised(ret[t]) THEN ErrorResult
                     ELSE TacticalSuccess(loopCount[t], actionsTaken[t])]
    /\ ReturnsVia(t, "result", Pop(t))
    /\ UNCHANGED <<storeVars, configVars, tacticalVars, sim, search,
                   paramVars, actionVars, runs, entry, arg, curRun,
                   loopVars, baseline, reads, cycle, steps, calls, clockVars, coordVars,
                   schedVars>>

\* The names coordinator.py binds from ..data.models (lines 14-17): Product,
\* OptimizationParameters, OptimizationResults, PerformanceMetrics, get_session.
\* InventoryActions, used at lines 174-176, is not among them.
InventoryActionsImported == FALSE

\* validate_parameter_consistency, lines 160-162: products joined with their
\* active rows, through the session.
ProductsWithParams == {id \in ProductIds : ActiveRows(txParams, id) # {}}

\* validate_parameter_consistency, lines 164-177: the loop body reaches the
\* name InventoryActions for the first product that has an active row.
ValidateRaises == ProductsWithParams # {} /\ ~InventoryActionsImported

\* run_coordination_cycle, lines 288-301.
CyStart(t) ==
    /\ pc[t] = "cy_start"
    /\ cycle' = [cycle EXCEPT ![t] = NoCycle]
    /\ IF ShouldRunStrategic
         THEN /\ steps' = [steps EXCEPT ![t] = <<"strategic">>]
              /\ stack' = [stack EXCEPT ![t] = Append(@, "cycle_strategic")]
              /\ pc' = [pc EXCEPT ![t] = "st_start"]
         ELSE /\ steps' = [steps EXCEPT ![t] = <<>>]
              /\ pc' = [pc EXCEPT ![t] = "cy_tactical"]
              /\ UNCHANGED stack
    /\ UNCHANGED <<storeVars, configVars, tacticalVars, sim, search,
                   paramVars, actionVars, runs, entry, arg, ret, curRun,
                   loopVars, baseline, reads, result, calls, clockVars, coordVars,
                   schedVars>>

\* run_coordination_cycle, line 301: the strategic result is stored.
CyAfterStrategic(t) ==
    /\ pc[t] = "ret" /\ Frame(t) = "cycle_strategic"
    /\ stack' = [stack EXCEPT ![t] = Pop(t)]
    /\ cycle' = [cycle EXCEPT ![t].strategic_optimization = result[t]]
    /\ pc' = [pc EXCEPT ![t] = "cy_tactical"]
    /\ UNCHANGED <<storeVars, configVars, tacticalVars, sim, search,
                   paramVars, actionVars, runs, entry, arg, ret, curRun,
                   loopVars, baseline, reads, result, steps, calls, clockVars, coordVars,
                   schedVars>>

\* run_coordination_cycle, lines 303-305.
CyTactical(t) ==
    /\ pc[t] = "cy_tactical"
    /\ steps' = [steps EXCEPT ![t] = Append(@, "tactical")]
    /\ stack' = [stack EXCEPT ![t] = Append(@, "cycle_tactical")]
    /\ pc' = [pc EXCEPT ![t] = "ta_start"]
    /\ UNCHANGED <<storeVars, configVars, tacticalVars, sim, search,
                   paramVars, actionVars, runs, entry, arg, ret, curRun,
                   loopVars, baseline, reads, result, cycle, calls, clockVars, coordVars,
                   schedVars>>

CyAfterTactical(t) ==
    /\ pc[t] = "ret" /\ Frame(t) = "cycle_tactical"
    /\ stack' = [stack EXCEPT ![t] = Pop(t)]
    /\ cycle' = [cycle EXCEPT ![t].tactical_optimization = result[t]]
    /\ pc' = [pc EXCEPT ![t] = "cy_validate"]
    /\ UNCHANGED <<storeVars, configVars, tacticalVars, sim, search,
                   paramVars, actionVars, runs, entry, arg, ret, curRun,
                   loopVars, baseline, reads, result, steps, calls, clockVars, coordVars,
                   schedVars>>

RECURSIVE SumQuantity(_)
SumQuantity(rows) ==
    IF rows = {} THEN 0
    ELSE LET a == CHOOSE x \in rows : TRUE
         IN  a.quantity + SumQuantity(rows \ {a})

\* abs(avg_tactical_quantity - strategic_quantity) / strategic_quantity > 0.5
\* (coordinator.py:180-184), with the mean written as sum / count.
Deviates(rows, strategic_quantity) ==
    LET n == Cardinality(rows)
        diff == SumQuantity(rows) - n * strategic_quantity
    IN  2 * (IF diff < 0 THEN 0 - diff ELSE diff) > n * strategic_quantity

\* validate_parameter_consistency, lines 164-191, for a module that has the
\* name InventoryActions: the products whose recent actions deviate from the
\* order_quantity of their active row.
ValidationIssues ==
    {id \in ProductsWithParams :
        /\ RecentActions(txActions, id) # {}
        /\ \E r \in ActiveRows(txParams, id) :
              Deviates(RecentActions(txActions, id), r.order_quantity)}

\* run_coordination_cycle, lines 307-309, with validate_parameter_consistency
\* (153-193).  The NameError is caught nowhere in run_coordination_cycle.
CyValidate(t) ==
    /\ pc[t] = "cy_validate"
    /\ steps' = [steps EXCEPT ![t] = Append(@, "validate")]
    /\ IF ValidateRaises
         THEN /\ Returns(t, "exception")
              /\ UNCHANGED cycle
         ELSE /\ cycle' = [cycle EXCEPT ![t].validation_issues = ValidationIssues]
              /\ pc' = [pc EXCEPT ![t] = "cy_performance"]
              /\ UNCHANGED ret
    /\ UNCHANGED <<storeVars, configVars, tacticalVars, sim, search,
                   paramVars, actionVars, runs, stack, entry, arg,
                   curRun, loopVars, baseline, reads, result, calls, clockVars,
                   coordVars, schedVars>>

\* run_coordination_cycle, lines 311-313: calculate_system_performance reads
\* the metrics and writes nothing.
CyPerformance(t) ==
    /\ pc[t] = "cy_performance"
    /\ steps' = [steps EXCEPT ![t] = Append(@, "performance")]
    /\ pc' = [pc EXCEPT ![t] = "cy_adaptive"]
    /\ UNCHANGED <<storeVars, configVars, tacticalVars, sim, search,
                   paramVars, actionVars, runs, stack, entry, arg, ret,
                   curRun, loopVars, baseline, reads, result, cycle, calls, clockVars,
                   coordVars, schedVars>>

\* What calculate_system_performance (coordinator.py:195-228) makes of the
\* PerformanceMetrics rows of the last 7 days: nothing, or the averages per
\* category, here as the side of the thresholds of lines 245, 259 and 269
\* they fall on.
PerformanceCases ==
    {[efficiency |-> "none", service |-> "none"],
     [efficiency |-> "low", service |-> "low"],
     [efficiency |-> "ok", service |-> "high"]}

\* adaptive_parameter_adjustment, lines 241-278: the proposals.
Adjustments(performance, cfg) ==
    (IF performance.efficiency = "low"
       THEN {[parameter |-> "gp_eims_max_iterations",
              old_value |-> cfg.max_iterations,
              new_value |-> Min(100, (cfg.max_iterations * 12) \div 10)]}
       ELSE {})
    \cup
    (IF performance.service = "low"
       THEN {[parameter |-> "mpc_prediction_horizon",
              old_value |-> cfg.prediction_horizon,
              new_value |-> Min(14, cfg.prediction_horizon + 1)]}
       ELSE IF performance.service = "high"
       THEN {[parameter |-> "mpc_prediction_horizon",
              old_value |-> cfg.prediction_horizon,
              new_value |-> Max(3, cfg.prediction_horizon - 1)]}
       ELSE {})

\* Every proposal written to the configuration.
AppliedAll(adjustments) == adjustments

\* The proposals adaptive_parameter_adjustment writes to GP_EIMS_CONFIG or
\* MPC_RL_CONFIG: lines 230-282 hold no assignment to either, the proposals
\* are appended to the list that is returned.
Applied(adjustments) == {}

\* The configuration with a set of proposals written to it.
Configured(cfg, adjustments) ==
    [max_iterations |->
        IF \E a \in adjustments : a.parameter = "gp_eims_max_iterations"
          THEN (CHOOSE a \in adjustments : a.parameter = "gp_eims_max_iterations").new_value
          ELSE cfg.max_iterations,
     prediction_horizon |->
        IF \E a \in adjustments : a.parameter = "mpc_prediction_horizon"
          THEN (CHOOSE a \in adjustments : a.parameter = "mpc_prediction_horizon").new_value
          ELSE cfg.prediction_horizon]

\* run_coordination_cycle, lines 315-317: adaptive_parameter_adjustment
\* (230-282) builds its proposals from the performance and returns them.
CyAdaptive(t) ==
    /\ pc[t] = "cy_adaptive"
    /\ steps' = [steps EXCEPT ![t] = Append(@, "adaptive")]
    /\ \E performance \in PerformanceCases :
         /\ cycle' = [cycle EXCEPT ![t].parameter_adjustments =
                          Adjustments(performance, config)]
         /\ config' = Configured(config, Applied(Adjustments(performance, config)))
    /\ pc' = [pc EXCEPT ![t] = "cy_log"]
    /\ UNCHANGED <<storeVars, cvxpy_available, rl_agents, tacticalVars, sim, search,
                   paramVars, actionVars, runs, stack, entry, arg, ret,
                   curRun, loopVars, baseline, reads, result, calls, clockVars,
                   coordVars, schedVars>>

\* run_coordination_cycle, lines 319-333: the cycle metric, the commit, and
\* the results dict is returned.
CyLog(t) ==
    /\ pc[t] = "cy_log"
    /\ \E fails \in BOOLEAN :
         IF fails
           THEN /\ CommitFail
                /\ Returns(t, "exception")
           ELSE /\ CommitOk(txParams, txResults, txActions)
                /\ Returns(t, "results")
    /\ UNCHANGED <<storeVars, configVars, tacticalVars, sim, search,
                   runs, stack, entry, arg, curRun, loopVars, baseline,
                   reads, cycleVars, calls, clockVars, coordVars, schedVars>>

\* ======================================================= the callers
\* optimizer.optimize_product(id) called directly (test_system_stability.py:231,
\* gp_eims.py:484) or, on the scheduler thread, reached from the scheduler loop.
CallOptimizeProduct(t, id) ==
    /\ pc[t] = "idle" /\ calls < MaxCalls
    /\ calls' = calls + 1
    /\ entry' = [entry EXCEPT ![t] = "optimize_product"]
    /\ arg' = [arg EXCEPT ![t] = id]
    /\ pc' = [pc EXCEPT ![t] = "op_lookup"]
    /\ UNCHANGED <<storeVars, configVars, tacticalVars, sim, search,
                   paramVars, actionVars, runs, stack, ret, curRun,
                   loopVars, baseline, reads, cycleVars, clockVars, coordVars, schedVars>>

\* controller.make_replenishment_decision(id) (test_stock_grip.py:207).
CallDecision(t, id) ==
    /\ pc[t] = "idle" /\ calls < MaxCalls
    /\ calls' = calls + 1
    /\ entry' = [entry EXCEPT ![t] = "make_replenishment_decision"]
    /\ arg' = [arg EXCEPT ![t] = id]
    /\ pc' = [pc EXCEPT ![t] = "de_state"]
    /\ UNCHANGED <<storeVars, configVars, tacticalVars, sim, search,
                   paramVars, actionVars, runs, stack, ret, curRun,
                   loopVars, baseline, reads, cycleVars, clockVars, coordVars, schedVars>>

\* coordinator.run_coordination_cycle() (test_stock_grip.py:244, app.py:571).
CallCycle(t) ==
    /\ pc[t] = "idle" /\ calls < MaxCycles
    /\ calls' = calls + 1
    /\ entry' = [entry EXCEPT ![t] = "run_coordination_cycle"]
    /\ pc' = [pc EXCEPT ![t] = "cy_start"]
    /\ UNCHANGED <<storeVars, configVars, tacticalVars, sim, search,
                   paramVars, actionVars, runs, stack, arg, ret, curRun,
                   loopVars, baseline, reads, cycleVars, clockVars, coordVars, schedVars>>

\* Time passes by d while no thread is inside a run (the clock is counted from
\* the first call).
Advance(d) ==
    /\ \A t \in Threads : pc[t] \in {"idle", "sc_sleep", "exited"}
    /\ calls >= 1
    /\ ticks < MaxTicks
    /\ ticks' = ticks + 1
    /\ now' = now + d
    /\ UNCHANGED <<storeVars, configVars, tacticalVars, sim, search,
                   paramVars, actionVars, runs, pc, stack, entry, arg,
                   ret, curRun, loopVars, baseline, reads, cycleVars, calls,
                   coordVars, schedVars>>

\* Between two manual cycles: one unit short of the strategic interval, or all of it.
Tick == calls < MaxCycles /\ \E d \in {StrategicInterval - 1, StrategicInterval} : Advance(d)

\* ================================================= the scheduler thread
\* The locals of run_scheduler (coordinator.py:346-348, 355) before the
\* thread has run.  started is history: the time the loop was entered.
NoSched == [last_strategic |-> NeverRun, last_tactical |-> NeverRun,
            last_coordination |-> NeverRun, current_time |-> NeverRun,
            started |-> NeverRun]

\* The Thread objects start_continuous_optimization can create (line 383).
SchedThreads == {"scheduler", "scheduler2"}

\* A scheduler loop that has been started and has not left its while loop.
Live(s) == s \in SchedThreads /\ pc[s] \notin {"idle", "exited"}

\* start_continuous_optimization, lines 339-384: nothing when the flag is
\* set; otherwise the flag is set and a new thread enters run_scheduler.
StartContinuous(t) ==
    /\ pc[t] = "idle" /\ calls < MaxCalls
    /\ calls' = calls + 1
    /\ entry' = [entry EXCEPT ![t] = "start_continuous_optimization"]
    /\ IF is_running
         THEN UNCHANGED <<pc, sched, is_running, optimization_thread>>
         ELSE \E s \in SchedThreads :
                /\ pc[s] = "idle"
                /\ is_running' = TRUE
                /\ optimization_thread' = s
                /\ pc' = [pc EXCEPT ![s] = "sc_check"]
                /\ sched' = [sched EXCEPT ![s] =
                                [last_strategic |-> now, last_tactical |-> now,
                                 last_coordination |-> now, current_time |-> now,
                                 started |-> now]]
    /\ UNCHANGED <<storeVars, configVars, tacticalVars, sim, search,
                   paramVars, actionVars, runs, stack, arg, ret, curRun,
                   loopVars, baseline, reads, cycleVars, clockVars, coordVars, stopSeen>>

\* stop_continuous_optimization, lines 391-398: the flag is cleared; join
\* waits at most 5 seconds and changes nothing.  stopSeen records, for each
\* loop that was live, that a stop has been issued.
StopContinuous(t) ==
    /\ pc[t] = "idle" /\ calls < MaxCalls
    /\ calls' = calls + 1
    /\ entry' = [entry EXCEPT ![t] = "stop_continuous_optimization"]
    /\ is_running' = FALSE
    /\ stopSeen' = [s \in Threads |->
                      IF Live(s) /\ stopSeen[s] = "none" THEN "stopped" ELSE stopSeen[s]]
    /\ UNCHANGED <<storeVars, configVars, tacticalVars, sim, search,
                   paramVars, actionVars, runs, pc, stack, arg, ret,
                   curRun, loopVars, baseline, reads, cycleVars, clockVars, coordVars,
                   optimization_thread, sched>>

\* run_scheduler, lines 354-355: the flag is read once per tick.
ScCheck(t) ==
    /\ pc[t] = "sc_check"
    /\ IF is_running
         THEN /\ sched' = [sched EXCEPT ![t].current_time = now]
              /\ pc' = [pc EXCEPT ![t] = "sc_strategic"]
              /\ stopSeen' = [stopSeen EXCEPT ![t] =
                                 IF @ = "stopped" THEN "ticked" ELSE @]
         ELSE /\ pc' = [pc EXCEPT ![t] = "exited"]
              /\ UNCHANGED <<sched, stopSeen>>
    /\ UNCHANGED <<storeVars, configVars, tacticalVars, sim, search,
                   paramVars, actionVars, runs, stack, entry, arg, ret,
                   curRun, loopVars, baseline, reads, cycleVars, calls, clockVars,
                   coordVars, is_running, optimization_thread>>

\* One of the three checks of the loop body: when the interval has passed the
\* run is called, otherwise the loop goes on to the next check.
ScDue(t, at, last, interval, frame, callee, next) ==
    /\ pc[t] = at
    /\ IF sched[t].current_time - last >= interval
         THEN /\ stack' = [stack EXCEPT ![t] = Append(@, frame)]
              /\ pc' = [pc EXCEPT ![t] = callee]
         ELSE /\ pc' = [pc EXCEPT ![t] = next]
              /\ UNCHANGED stack
    /\ UNCHANGED <<storeVars, configVars, tacticalVars, sim, search,
                   paramVars, actionVars, runs, entry, arg, ret, curRun,
                   loopVars, baseline, reads, cycleVars, calls, clockVars, coordVars,
                   schedVars>>

\* The timer that moves on only after a run with status success.
TimerAfterSuccess(returned, status, last, current_time) ==
    IF Raised(returned) \/ status # "success" THEN last ELSE current_time

\* run_scheduler, lines 359-363 (and 367-371, 375-379): last_x = current_time
\* is the statement after the call inside the try, so it is skipped only when
\* the call raised; the status in the dict the run returned is not read.
TimerAfter(returned, status, last, current_time) ==
    IF Raised(returned) THEN last ELSE current_time

\* The run returned: its last_* local is set to current_time, unless the run
\* raised and the except clause of the loop took it.  The loop drops the
\* value the run returned, and the locals of the run are gone with it.
ScDone(t, frame, field, next) ==
    /\ pc[t] = "ret" /\ Frame(t) = frame
    /\ stack' = [stack EXCEPT ![t] = Pop(t)]
    /\ sched' = [sched EXCEPT ![t][field] =
                    TimerAfter(ret[t], result[t].status, @, sched[t].current_time)]
    /\ pc' = [pc EXCEPT ![t] = next]
    /\ ret' = [ret EXCEPT ![t] = None]
    /\ result' = [result EXCEPT ![t] = NoResult]
    /\ cycle' = [cycle EXCEPT ![t] = NoCycle]
    /\ steps' = [steps EXCEPT ![t] = <<>>]
    /\ loopIdx' = [loopIdx EXCEPT ![t] = 0]
    /\ loopCount' = [loopCount EXCEPT ![t] = 0]
    /\ actionsTaken' = [actionsTaken EXCEPT ![t] = 0]
    /\ attempts' = [attempts EXCEPT ![t] = [i \in 1..Len(products) |-> 0]]
    /\ UNCHANGED <<storeVars, configVars, tacticalVars, sim, search,
                   paramVars, actionVars, runs, entry, arg, curRun,
                   baseline, reads, calls, clockVars, coordVars,
                   is_running, optimization_thread, stopSeen>>

\* run_scheduler, lines 358-363.
ScStrategic(t) ==
    ScDue(t, "sc_strategic", sched[t].last_strategic, StrategicInterval,
          "scheduler_strategic", "st_start", "sc_tactical")

ScAfterStrategic(t) == ScDone(t, "scheduler_strategic", "last_strategic", "sc_tactical")

\* run_scheduler, lines 366-371.
ScTactical(t) ==
    ScDue(t, "sc_tactical", sched[t].last_tactical, TacticalInterval,
          "scheduler_tactical", "ta_start", "sc_coordination")

ScAfterTactical(t) == ScDone(t, "scheduler_tactical", "last_tactical", "sc_coordination")

\* run_scheduler, lines 374-379.
ScCoordination(t) ==
    ScDue(t, "sc_coordination", sched[t].last_coordination, CoordinationInterval,
          "scheduler_coordination", "cy_start", "sc_sleep")

ScAfterCoordination(t) ==
    ScDone(t, "scheduler_coordination", "last_coordination", "sc_sleep")

\* run_scheduler, line 381: time.sleep(60) returns.
ScSleep(t) ==
    /\ pc[t] = "sc_sleep"
    /\ pc' = [pc EXCEPT ![t] = "sc_check"]
    /\ UNCHANGED <<storeVars, configVars, tacticalVars, sim, search,
                   paramVars, actionVars, runs, stack, entry, arg, ret,
                   curRun, loopVars, baseline, reads, cycleVars, calls, clockVars,
                   coordVars, schedVars>>

\* While the scheduler loops sleep, the shortest or the longest of the three
\* intervals passes.  A loop that sleeps with the flag cleared wakes within a
\* minute and leaves, so no interval passes over it.
SchedTick ==
    /\ \A s \in SchedThreads : Live(s) => is_running
    /\ \E d \in {TacticalInterval, StrategicInterval} : Advance(d)

\* ================================================ InventorySimulator
\* SIMULATION_CONFIG (config/settings.py:72-74).  Money is counted in units
\* of 1/1460 of the currency, so that a day's holding cost of one unit of
\* stock (unit_cost * 0.25 / 365, gp_eims.py:32 and 68) is unit_cost.
MoneyUnits == 1460
StockoutPenalty == 10
OrderCost == 50

\* simulate(..., simulation_days=90), gp_eims.py:37.
SimulationDays == 90

\* The index of the record sorted() puts first: the earliest date, and the
\* first of the records that share it.
Earliest(records) ==
    CHOOSE i \in 1..Len(records) :
        /\ \A j \in 1..Len(records) : records[i].date <= records[j].date
        /\ \A j \in 1..(i - 1) : records[j].date # records[i].date

Without(records, i) == SubSeq(records, 1, i - 1) \o SubSeq(records, i + 1, Len(records))

\* sorted(records, key=lambda x: x.date), gp_eims.py:51.
RECURSIVE SortedByDate(_)
SortedByDate(records) ==
    IF records = <<>> THEN <<>>
    ELSE <<records[Earliest(records)]>>
           \o SortedByDate(Without(records, Earliest(records)))

\* InventorySimulator(product, demand_history), gp_eims.py:29-34, before any
\* call of simulate; returned is the history of the calls made on it.
NewSimulator(unit_cost, demand_history) ==
    [phase |-> "new", unit_cost |-> unit_cost, demand_history |-> demand_history,
     returned |-> {}]

\* The reorder test with < in place of <=.
BelowReorderPoint(current_stock, reorder_point) == current_stock < reorder_point

\* if current_stock <= reorder_point, gp_eims.py:57.
ReorderNeeded(current_stock, reorder_point) == current_stock <= reorder_point

\* simulate, gp_eims.py:42-51: the locals before the loop, on the simulator s.
SimulateLocals(s, reorder_point, safety_stock, order_quantity) ==
    [phase |-> "loop", unit_cost |-> s.unit_cost,
     demand_history |-> s.demand_history, returned |-> s.returned,
     reorder_point |-> reorder_point, safety_stock |-> safety_stock,
     order_quantity |-> order_quantity,
     recent_demand |-> SortedByDate(LastN(s.demand_history, SimulationDays)),
     i |-> 0,
     current_stock |-> safety_stock + order_quantity,
     total_holding_cost |-> 0, total_stockout_cost |-> 0,
     total_order_cost |-> 0, stockout_events |-> 0, total_orders |-> 0,
     fulfilled_units |-> 0, demanded_units |-> 0]

\* simulate is entered.
SimulateStart(reorder_point, safety_stock, order_quantity) ==
    /\ sim.phase \in {"new", "done"}
    /\ calls < MaxCalls
    /\ calls' = calls + 1
    /\ sim' = SimulateLocals(sim, reorder_point, safety_stock, order_quantity)
    /\ UNCHANGED <<storeVars, configVars, tacticalVars, search, paramVars, actionVars, runs,
                   pc, stack, entry, arg, ret, curRun, loopVars, baseline, reads,
                   cycleVars, clockVars, coordVars, schedVars>>

\* simulate, gp_eims.py:53-72: the locals after one more day of the loop.
\* fulfilled_units and demanded_units are history: the code keeps no such
\* totals.
SimulateStep(s) ==
    LET daily_demand == s.recent_demand[s.i + 1].quantity
        reorder == ReorderNeeded(s.current_stock, s.reorder_point)
        stocked == IF reorder THEN s.current_stock + s.order_quantity
                              ELSE s.current_stock
        fulfilled == Min(daily_demand, stocked)
        stockout == daily_demand - fulfilled
        current_stock == Max(0, stocked - fulfilled)
    IN  [s EXCEPT
           !.i = @ + 1,
           !.current_stock = current_stock,
           !.total_order_cost = IF reorder THEN @ + OrderCost * MoneyUnits ELSE @,
           !.total_orders = IF reorder THEN @ + 1 ELSE @,
           !.total_holding_cost = @ + current_stock * s.unit_cost,
           !.total_stockout_cost =
               IF stockout > 0 THEN @ + stockout * StockoutPenalty * MoneyUnits
                               ELSE @,
           !.stockout_events = IF stockout > 0 THEN @ + 1 ELSE @,
           !.fulfilled_units = @ + fulfilled,
           !.demanded_units = @ + daily_demand]

SimulateDay ==
    /\ sim.phase = "loop"
    /\ sim.i < Len(sim.recent_demand)
    /\ sim' = SimulateStep(sim)
    /\ UNCHANGED <<storeVars, configVars, tacticalVars, search, paramVars, actionVars, runs,
                   pc, stack, entry, arg, ret, curRun, loopVars, baseline, reads,
                   cycleVars, calls, clockVars, coordVars, schedVars>>

\* simulate, gp_eims.py:74-86: the metrics.  service_level is kept as the
\* fraction the code divides out: 1 - stockout_events / len(recent_demand),
\* or 1 for no records.
SimulateResult(s) ==
    [total_cost |-> s.total_holding_cost + s.total_stockout_cost + s.total_order_cost,
     holding_cost |-> s.total_holding_cost,
     stockout_cost |-> s.total_stockout_cost,
     order_cost |-> s.total_order_cost,
     service_level |->
         IF Len(s.recent_demand) > 0
           THEN [num |-> Len(s.recent_demand) - s.stockout_events,
                 den |-> Len(s.recent_demand)]
           ELSE [num |-> 1, den |-> 1],
     stockout_events |-> s.stockout_events,
     total_orders |-> s.total_orders]

SimulateArgs(s) ==
    [reorder_point |-> s.reorder_point, safety_stock |-> s.safety_stock,
     order_quantity |-> s.order_quantity]

\* simulate run to its return on locals s: what a caller gets back.
RECURSIVE Simulated(_)
Simulated(s) ==
    IF s.i = Len(s.recent_demand) THEN SimulateResult(s)
    ELSE Simulated(SimulateStep(s))

SimulateReturn ==
    /\ sim.phase = "loop"
    /\ sim.i = Len(sim.recent_demand)
    /\ sim' = [sim EXCEPT
                 !.phase = "done",
                 !.returned = @ \cup {[args |-> SimulateArgs(sim),
                                       result |-> SimulateResult(sim)]}]
    /\ UNCHANGED <<storeVars, configVars, tacticalVars, search, paramVars, actionVars, runs,
                   pc, stack, entry, arg, ret, curRun, loopVars, baseline, reads,
                   cycleVars, calls, clockVars, coordVars, schedVars>>

\* ================================================ GPEIMSOptimizer: the search
\* SIMULATION_CONFIG["service_level_target"] (config/settings.py:71), in
\* percent.
ServiceLevelTarget == 95

\* results["service_level"] < target_service_level, gp_eims.py:203.
BelowTarget(level) == 100 * level.num < ServiceLevelTarget * level.den

\* simulate called by _objective_function (gp_eims.py:185-195) with the
\* policy cut to valid values.
SimulatedPolicy(params, prod, history) ==
    Simulated(SimulateLocals(NewSimulator(prod.unit_cost, history),
                             Max(0, params[1]), Max(0, params[2]),
                             Max(prod.min_order_quantity,
                                 Min(prod.max_order_quantity, params[3]))))

\* The service level simulate returns for a policy.
ServiceLevel(params, prod, history) ==
    SimulatedPolicy(params, prod, history).service_level

\* _objective_function, gp_eims.py:180-206, in the money units of the
\* simulator: total cost plus 10000 for every unit of service level missing
\* to the target.  The histories of the model have lengths that divide the
\* penalty, so the division is exact.
ObjectiveFunction(params, prod, history) ==
    LET results == SimulatedPolicy(params, prod, history)
        level == results.service_level
        service_penalty ==
            IF BelowTarget(level)
              THEN (100 * MoneyUnits * (ServiceLevelTarget * level.den - 100 * level.num))
                       \div level.den
              ELSE 0
    IN  results.total_cost + service_penalty

\* int(mean_demand * num / den) for the demand column of a history
\* (gp_eims.py:251-253 with the int() of lines 216-226 and 277-279).
MeanTimes(history, num, den) ==
    (Sum([i \in 1..Len(history) |-> history[i].quantity]) * num) \div (Len(history) * den)

\* np.max of the demand column, gp_eims.py:255.
MaxDemand(history) ==
    CHOOSE m \in {history[i].quantity : i \in 1..Len(history)} :
        \A i \in 1..Len(history) : history[i].quantity <= m

\* _get_parameter_bounds, gp_eims.py:208-229.
ParameterBounds(prod, history) ==
    <<[low |-> MeanTimes(history, prod.lead_time_days, 2),
       high |-> MaxDemand(history) * prod.lead_time_days * 2],
      [low |-> 0, high |-> MeanTimes(history, 30, 1)],
      [low |-> prod.min_order_quantity,
       high |-> Min(prod.max_order_quantity, MeanTimes(history, 60, 1))]>>

\* max(low, min(high, x)) for each parameter, gp_eims.py:283-284 and 354-355.
Clipped(params, bounds) ==
    [i \in 1..3 |-> Max(bounds[i].low, Min(bounds[i].high, params[i]))]

\* The default initialization, gp_eims.py:276-280.
DefaultGuess(prod, history) ==
    <<MeanTimes(history, 3 * prod.lead_time_days, 2), MeanTimes(history, 7, 1),
      MeanTimes(history, 30, 1)>>

\* gp_eims.py:262-284: the active row of the product when there is one (rows
\* holds it), the default otherwise, cut to the bounds.
InitialGuess(rows, prod, history) ==
    Clipped(IF rows # {}
              THEN LET current_params == CHOOSE r \in rows : TRUE
                   IN  <<current_params.reorder_point, current_params.safety_stock,
                         current_params.order_quantity>>
              ELSE DefaultGuess(prod, history),
            ParameterBounds(prod, history))

\* Points of the unit box, in quarters, that the random sampling (gp_eims.py:
\* 344, 347) or the acquisition search (329-338) hands over as
\* next_params_normalized.
UnitPoints == {<<0, 0, 0>>, <<0, 0, 3>>}

\* _denormalize_parameters (gp_eims.py:147-153) and astype(int) (351) of a
\* point of the unit box, then the cut to the bounds (354-355).
NextParams(x, bounds) ==
    Clipped([i \in 1..3 |-> bounds[i].low + (x[i] * (bounds[i].high - bounds[i].low)) \div 4],
            bounds)

\* y_observed, as much of it as the loop reads: its length, its last five
\* values (y_observed[-5:]) and the least of the values before them
\* (np.min(y_observed[:-5]), no entry while there are none).  before is
\* history: the five values before the last five, which the code does not
\* tell from the older ones.
FirstObserved(value) == [len |-> 1, last |-> <<value>>, older |-> <<>>, before |-> <<>>]

Observed(y, value) ==
    [len |-> y.len + 1,
     last |-> LastN(Append(y.last, value), 5),
     older |-> IF Len(y.last) < 5 THEN y.older
               ELSE IF y.older = <<>> THEN <<y.last[1]>>
               ELSE <<Min(y.older[1], y.last[1])>>,
     before |-> IF Len(y.last) < 5 THEN y.before
                ELSE LastN(Append(y.before, y.last[1]), 5)]

\* np.min of a non-empty list.
MinOf(values) ==
    CHOOSE m \in {values[i] : i \in 1..Len(values)} :
        \A i \in 1..Len(values) : m <= values[i]

Abs(x) == IF x < 0 THEN 0 - x ELSE x

\* The least whole number that is not below x / 100, for x >= 0.
Hundredth(x) == (x + 99) \div 100

\* The early stop without the wait for the eleventh pass.
EarlyStopAtOnce(iteration, y, best_value) ==
    /\ y.len > 5
    /\ Abs(MinOf(y.last) - y.older[1]) < Hundredth(best_value)

\* gp_eims.py:371-373, for the loop index iteration:
\* abs(min(y[-5:]) - min(y[:-5])) < best_value * 0.01, a comparison of a
\* whole number with a hundredth.
EarlyStop(iteration, y, best_value) ==
    /\ iteration > 10
    /\ y.len > 5
    /\ Abs(MinOf(y.last) - y.older[1]) < Hundredth(best_value)

\* The update that takes every candidate as the new best.
BetterAlways(next_value, best_value) == TRUE

\* if next_value < best_value, gp_eims.py:365.
Better(next_value, best_value) == next_value < best_value

\* One evaluation of _objective_function, with the service level simulate
\* returned in it.
Evaluation(params, prod, history) ==
    [params |-> params, value |-> ObjectiveFunction(params, prod, history),
     service_level |-> ServiceLevel(params, prod, history)]

\* optimize_product, lines 250-299: statistics, bounds, the initial guess
\* (a read of the active row through the session) and its evaluation.
\* evaluated is history: the evaluations of the run.  objective holds the
\* evaluation of each point the loop can be handed, worked out once: it is a
\* function of the point, the product and the demand history alone.
\* default_value is history as well: the objective of the default guess.
SeInitial(t) ==
    /\ pc[t] = "op_search"
    /\ LET prod == productRow[arg[t]]
           history == demandHistory[arg[t]]
           rows == ActiveRows(txParams, arg[t])
           initial_guess == InitialGuess(rows, prod, history)
           initial == Evaluation(initial_guess, prod, history)
           initial_value == initial.value
       IN  search' = [phase |-> "loop", product_id |-> arg[t],
                      bounds |-> ParameterBounds(prod, history),
                      current_params |-> rows # {},
                      initial_value |-> initial_value,
                      default_value |->
                          ObjectiveFunction(DefaultGuess(prod, history), prod, history),
                      best_params |-> initial_guess, best_value |-> initial_value,
                      iteration |-> 0, early |-> FALSE,
                      y_observed |-> FirstObserved(initial_value),
                      objective |->
                          [x \in UnitPoints |->
                              Evaluation(NextParams(x, ParameterBounds(prod, history)),
                                         prod, history)],
                      evaluated |-> {initial},
                      opt_result |-> [run_id |-> 0]]
    /\ pc' = [pc EXCEPT ![t] = "se_loop"]
    /\ UNCHANGED <<storeVars, configVars, tacticalVars, sim,
                   paramVars, actionVars, runs, stack, entry, arg, ret,
                   curRun, loopVars, baseline, reads, cycleVars, calls, clockVars,
                   coordVars, schedVars>>

\* optimize_product, lines 301-375: one pass of the loop.  With two
\* observations or more the surrogate is fitted and the acquisition searched
\* (303-344); nothing in the loop catches what gp.fit or minimize raise.  The
\* candidate is evaluated (349-362), the best is updated (365-368), and the
\* loop is left at the early stop (371-375) or after max_iterations passes.
SeIterate(t) ==
    /\ pc[t] = "se_loop"
    /\ \E fit \in {"ok", "raises"} :
         IF fit = "raises"
           THEN /\ search.y_observed.len > 1
                /\ search' = NoSearch
                /\ SetRun(curRun[t], "raised")
                /\ Returns(t, "exception")
           ELSE \E x \in UnitPoints :
                  LET next_params == NextParams(x, search.bounds)
                      next_value == search.objective[x].value
                      y == Observed(search.y_observed, next_value)
                      better == Better(next_value, search.best_value)
                      best_value == IF better THEN next_value ELSE search.best_value
                      early == EarlyStop(search.iteration, y, best_value)
                      left == early \/ search.iteration + 1 >= config.max_iterations
                  IN  /\ search' = [search EXCEPT
                                      !.phase = IF left THEN "done" ELSE "loop",
                                      !.iteration = @ + 1,
                                      !.early = early,
                                      !.y_observed = y,
                                      !.best_value = best_value,
                                      !.best_params = IF better THEN next_params ELSE @,
                                      !.evaluated = @ \cup {search.objective[x]}]
                      /\ pc' = [pc EXCEPT ![t] = IF left THEN "op_deactivate"
                                                 ELSE "se_loop"]
                      /\ UNCHANGED <<runs, ret>>
    /\ UNCHANGED <<storeVars, configVars, tacticalVars, sim,
                   paramVars, actionVars, stack, entry, arg,
                   curRun, loopVars, baseline, reads, cycleVars, calls, clockVars,
                   coordVars, schedVars>>

\* ================================================== initial states
\* Rows that exist before the behaviour starts: written and committed by a
\* completed optimize_product run, so at most one per product, active.
InitialRow(i) ==
    [id |-> 0 - i, product_id |-> products[i], is_active |-> TRUE, run |-> 0,
     reorder_point |-> SettledPolicy[1], safety_stock |-> SettledPolicy[2],
     order_quantity |-> SettledPolicy[3]]

InitThreads ==
    /\ runs = <<>>
    /\ pc = [t \in Threads |-> "idle"]
    /\ stack = [t \in Threads |-> <<>>]
    /\ entry = [t \in Threads |-> None]
    /\ arg = [t \in Threads |-> None]
    /\ ret = [t \in Threads |-> None]
    /\ curRun = [t \in Threads |-> 0]
    /\ loopIdx = [t \in Threads |-> 0]
    /\ loopCount = [t \in Threads |-> 0]
    /\ actionsTaken = [t \in Threads |-> 0]
    /\ attempts = [t \in Threads |-> [i \in 1..Len(products) |-> 0]]
    /\ baseline = [t \in Threads |-> 0]
    /\ reads = {}
    /\ result = [t \in Threads |-> NoResult]
    /\ cycle = [t \in Threads |-> NoCycle]
    /\ steps = [t \in Threads |-> <<>>]
    /\ calls = 0
    /\ now = 0
    /\ ticks = 0

\* A Product row as the generator and the upload write it: lead time of a
\* day, min_order_quantity 1 (models.py:23), max_order_quantity 10000
\* (models.py:24).
DefaultProduct ==
    [lead_time_days |-> 1, min_order_quantity |-> 1, max_order_quantity |-> 10000,
     unit_cost |-> 10]

\* A demand list of n days with the same quantity on each.
FlatDemand(n, quantity) == [i \in 1..n |-> quantity]

\* The Inventory rows of the products in ids, as generate_initial_inventory
\* writes them, in the order of the Product table.
InitialInventory(ids) ==
    LET Listed(id) == id \in ids
        listed == SelectSeq(products, Listed)
    IN  [i \in 1..Len(listed) |->
            InventoryRow(listed[i], 50, 4, 0, AvailableStock(50, 4))]

\* The simulator before simulate is called.
NoSim == [phase |-> "none"]

\* The Product columns, the demand of the last 14 days, the solver library,
\* the configuration as config/settings.py has it, and no locals yet.
InitTactical(cvxpys, rows, demands, agents) ==
    /\ productRow \in [ProductIds -> rows]
    /\ recentDemand \in [ProductIds -> demands]
    /\ cvxpy_available \in cvxpys
    /\ rl_agents \in [ProductIds -> agents]
    /\ config = [max_iterations |-> MaxIterations,
                 prediction_horizon |-> PredictionHorizon]
    /\ state = [t \in Threads |-> NoState]
    /\ mpc = [t \in Threads |-> NoMpc]
    /\ decision = [t \in Threads |-> NoDecision]
    /\ sim = NoSim
    /\ search = NoSearch

InitStore(prods, histories, inventories, withRows) ==
    /\ products = prods
    /\ demandCount \in histories
    /\ demandHistory = [id \in DOMAIN demandCount |-> FlatHistory(demandCount[id], 5)]
    /\ \E ids \in inventories : inventory = InitialInventory(ids)
    /\ \E withRow \in withRows : dbParams = {InitialRow(i) : i \in withRow}
    /\ txParams = dbParams
    /\ dbResults = {} /\ txResults = {}
    /\ dbActions = {} /\ txActions = {}

\* __init__, coordinator.py:23-55: each optimizer is there or, when its
\* construction failed, is not.
InitCoordinator(gps, mpcs) ==
    /\ gp_eims_available \in gps
    /\ mpc_rl_available \in mpcs
    /\ last_strategic_optimization = NeverRun
    /\ strategicRuns = [returned |-> NeverRun, succeeded |-> NeverRun]
    /\ is_running = FALSE
    /\ optimization_thread = None
    /\ sched = [t \in Threads |-> NoSched]
    /\ stopSeen = [t \in Threads |-> "none"]

\* ------------------------------------------------------------------
\* Spec: two threads call optimize_product and make_replenishment_decision
\* on the shared session.  The manual caller passes any id, known or not; the
\* scheduler thread reaches the two functions only from the per-product loops
\* (gp_eims.py:456-460, mpc_rl_mobo.py:619-622), so with ids of the table.
Callers == {"manual", "scheduler"}

CallIds(t) == IF t = "manual" THEN ProductIds \cup {UnknownId} ELSE ProductIds

Init ==
    /\ InitStore(<<"p1">>, [{"p1"} -> {MinHistory - 1, MinHistory}],
                 {{"p1"}, {}}, {{}, {1}})
    /\ InitThreads
    /\ InitCoordinator({TRUE}, {TRUE})
    /\ InitTactical({TRUE}, {DefaultProduct}, {FlatDemand(7, 10)}, {NewAgent})

Next ==
    \/ \E t \in Callers : \E id \in CallIds(t) : CallOptimizeProduct(t, id)
    \/ \E t \in Callers : \E id \in CallIds(t) : CallDecision(t, id)
    \/ \E t \in Callers : OpLookup(t)
    \/ \E t \in Callers : OpSearch(t)
    \/ \E t \in Callers : OpDeactivate(t)
    \/ \E t \in Callers : OpAdd(t)
    \/ \E t \in Callers : OpResult(t)
    \/ \E t \in Callers : OpCommit(t)
    \/ \E t \in Callers : DeState(t)
    \/ \E t \in Callers : DeParams(t)
    \/ \E t \in Callers : DeMpc(t)
    \/ \E t \in Callers : DeEmit(t)

Spec == Init /\ [][Next]_vars

\* ------------------------------------------------------------------
\* SpecCalls: one caller, no second thread: optimize_product and
\* make_replenishment_decision as functions called one after the other.
NextCalls ==
    \/ \E id \in CallIds("manual") : CallOptimizeProduct("manual", id)
    \/ \E id \in CallIds("manual") : CallDecision("manual", id)
    \/ OpLookup("manual")
    \/ OpSearch("manual")
    \/ OpDeactivate("manual")
    \/ OpAdd("manual")
    \/ OpResult("manual")
    \/ OpCommit("manual")
    \/ DeState("manual")
    \/ DeParams("manual")
    \/ DeMpc("manual")
    \/ DeEmit("manual")

SpecCalls == Init /\ [][NextCalls]_vars

\* ------------------------------------------------------------------
\* SpecCycle: one caller runs run_coordination_cycle, again and again, with
\* days passing between the calls.
InitCycle ==
    /\ InitStore(<<"p1", "p2">>,
                 {[p1 |-> MinHistory, p2 |-> MinHistory - 1],
                  [p1 |-> MinHistory, p2 |-> MinHistory]},
                 {{"p1"}}, {{}, {1}})
    /\ InitThreads
    /\ InitCoordinator(BOOLEAN, BOOLEAN)
    /\ InitTactical({TRUE}, {DefaultProduct}, {FlatDemand(7, 10)}, {NewAgent})

NextCycle ==
    \/ CallCycle("manual")
    \/ Tick
    \/ CyStart("manual")
    \/ StStart("manual")
    \/ AllStart("manual")
    \/ AllLoop("manual")
    \/ OpLookup("manual")
    \/ OpSearch("manual")
    \/ OpDeactivate("manual")
    \/ OpAdd("manual")
    \/ OpResult("manual")
    \/ OpCommit("manual")
    \/ AllAfter("manual")
    \/ StAfter("manual")
    \/ StCommit("manual")
    \/ CyAfterStrategic("manual")
    \/ CyTactical("manual")
    \/ TaStart("manual")
    \/ TcStart("manual")
    \/ TcLoop("manual")
    \/ DeState("manual")
    \/ DeParams("manual")
    \/ DeMpc("manual")
    \/ DeEmit("manual")
    \/ TcAfter("manual")
    \/ TcLearn("manual")
    \/ TcMetrics("manual")
    \/ TaAfter("manual")
    \/ CyAfterTactical("manual")
    \/ CyValidate("manual")
    \/ CyPerformance("manual")
    \/ CyAdaptive("manual")
    \/ CyLog("manual")

SpecCycle == InitCycle /\ [][NextCycle]_vars

\* ------------------------------------------------------------------
\* SpecSched: the operator starts and stops continuous optimization; each
\* started thread runs the scheduler loop on the shared coordinator.  The
\* store holds one product with too little history and no inventory row, so
\* optimize_product and make_replenishment_decision return at their first
\* check and the steps behind it are never reached.
InitSched ==
    /\ InitStore(<<"p1">>, {[p1 |-> MinHistory - 1]}, {{}}, {{}})
    /\ InitThreads
    /\ InitCoordinator(BOOLEAN, {TRUE})
    /\ InitTactical({TRUE}, {DefaultProduct}, {FlatDemand(7, 10)}, {NewAgent})

NextSched ==
    \/ StartContinuous("manual")
    \/ StopContinuous("manual")
    \/ SchedTick
    \/ \E t \in SchedThreads : ScCheck(t)
    \/ \E t \in SchedThreads : ScStrategic(t)
    \/ \E t \in SchedThreads : ScAfterStrategic(t)
    \/ \E t \in SchedThreads : ScTactical(t)
    \/ \E t \in SchedThreads : ScAfterTactical(t)
    \/ \E t \in SchedThreads : ScCoordination(t)
    \/ \E t \in SchedThreads : ScAfterCoordination(t)
    \/ \E t \in SchedThreads : ScSleep(t)
    \/ \E t \in SchedThreads : CyStart(t)
    \/ \E t \in SchedThreads : StStart(t)
    \/ \E t \in SchedThreads : AllStart(t)
    \/ \E t \in SchedThreads : AllLoop(t)
    \/ \E t \in SchedThreads : OpLookup(t)
    \/ \E t \in SchedThreads : AllAfter(t)
    \/ \E t \in SchedThreads : StAfter(t)
    \/ \E t \in SchedThreads : StCommit(t)
    \/ \E t \in SchedThreads : CyAfterStrategic(t)
    \/ \E t \in SchedThreads : CyTactical(t)
    \/ \E t \in SchedThreads : TaStart(t)
    \/ \E t \in SchedThreads : TcStart(t)
    \/ \E t \in SchedThreads : TcLoop(t)
    \/ \E t \in SchedThreads : DeState(t)
    \/ \E t \in SchedThreads : TcAfter(t)
    \/ \E t \in SchedThreads : TcLearn(t)
    \/ \E t \in SchedThreads : TcMetrics(t)
    \/ \E t \in SchedThreads : TaAfter(t)
    \/ \E t \in SchedThreads : CyAfterTactical(t)
    \/ \E t \in SchedThreads : CyValidate(t)
    \/ \E t \in SchedThreads : CyPerformance(t)
    \/ \E t \in SchedThreads : CyAdaptive(t)
    \/ \E t \in SchedThreads : CyLog(t)

SpecSched == InitSched /\ [][NextSched]_vars

\* ------------------------------------------------------------------
\* SpecTactical: the Inventory table is written by the generator and by the
\* upload, a client builds InventoryState objects, and one caller asks for
\* replenishment decisions, with the solver library there or not.
TacticalProducts ==
    {DefaultProduct, [DefaultProduct EXCEPT !.min_order_quantity = 2]}

TacticalDemands == {FlatDemand(7, 10), FlatDemand(2, 0)}

\* What an agent can have learnt: nothing, or, with the scaler fitted, weights
\* that give the state a positive or a negative Q-value.
TacticalAgents ==
    {NewAgent, [is_fitted |-> TRUE, q |-> 1], [is_fitted |-> TRUE, q |-> 0 - 1]}

InitTacticalCalls ==
    /\ InitStore(<<"p1">>, {[p1 |-> MinHistory]}, {{}, {"p1"}}, {{1}})
    /\ InitThreads
    /\ InitCoordinator({TRUE}, {TRUE})
    /\ InitTactical(BOOLEAN, TacticalProducts, TacticalDemands, TacticalAgents)

NextTactical ==
    \/ GenerateInitialInventory("manual")
    \/ LoadInventory("manual", "p1")
    \/ NewInventoryState("manual", "p1")
    \/ CallDecision("manual", "p1")
    \/ DeState("manual")
    \/ DeParams("manual")
    \/ DeMpc("manual")
    \/ DeEmit("manual")

SpecTactical == InitTacticalCalls /\ [][NextTactical]_vars

\* ------------------------------------------------------------------
\* SpecSimulate: one InventorySimulator, built on a demand history as the
\* query of optimize_product returns it (gp_eims.py:241-244, latest first),
\* is asked to simulate a few policies one after the other.
SimHistories ==
    {<<>>,
     <<Day(1, 5)>>,
     <<Day(2, 5), Day(1, 20)>>,
     <<Day(3, 0), Day(2, 20), Day(1, 5)>>,
     <<Day(1, 5), Day(3, 5), Day(2, 20)>>}

\* The policies _objective_function hands over (gp_eims.py:187-195): no
\* negative reorder point or safety stock, an order quantity of at least 1.
SimReorderPoints == {0, 10}
SimSafetyStocks == {0, 5}
SimOrderQuantities == {1, 10}

InitSimulate ==
    /\ InitStore(<<"p1">>, {[p1 |-> MinHistory]}, {{}}, {{}})
    /\ InitThreads
    /\ InitCoordinator({TRUE}, {TRUE})
    /\ productRow = [id \in ProductIds |-> DefaultProduct]
    /\ recentDemand = [id \in ProductIds |-> FlatDemand(7, 10)]
    /\ cvxpy_available = TRUE
    /\ rl_agents = [id \in ProductIds |-> NewAgent]
    /\ config = [max_iterations |-> MaxIterations,
                 prediction_horizon |-> PredictionHorizon]
    /\ state = [t \in Threads |-> NoState]
    /\ mpc = [t \in Threads |-> NoMpc]
    /\ decision = [t \in Threads |-> NoDecision]
    /\ search = NoSearch
    /\ \E history \in SimHistories :
         sim = NewSimulator(DefaultProduct.unit_cost, history)

NextSimulate ==
    \/ \E reorder_point \in SimReorderPoints, safety_stock \in SimSafetyStocks,
          order_quantity \in SimOrderQuantities :
            SimulateStart(reorder_point, safety_stock, order_quantity)
    \/ SimulateDay
    \/ SimulateReturn

SpecSimulate == InitSimulate /\ [][NextSimulate]_vars

\* ------------------------------------------------------------------
\* SpecSearch: one caller runs optimize_product on a product with 40 days of
\* history, with and without an active row, and the search loop is followed
\* pass by pass.
SearchHistories ==
    {FlatHistory(40, 5),
     [i \in 1..40 |-> Day(41 - i, IF i % 8 = 0 THEN 40 ELSE 2)]}

InitSearch ==
    /\ products = <<"p1">>
    /\ demandHistory \in [{"p1"} -> SearchHistories]
    /\ demandCount = [id \in {"p1"} |-> Len(demandHistory[id])]
    /\ inventory = <<>>
    /\ \E withRow \in {{}, {1}} : dbParams = {InitialRow(i) : i \in withRow}
    /\ txParams = dbParams
    /\ dbResults = {} /\ txResults = {}
    /\ dbActions = {} /\ txActions = {}
    /\ InitThreads
    /\ InitCoordinator({TRUE}, {TRUE})
    /\ InitTactical({TRUE}, {DefaultProduct}, {FlatDemand(7, 10)}, {NewAgent})

NextSearch ==
    \/ CallOptimizeProduct("manual", "p1")
    \/ OpLookup("manual")
    \/ SeInitial("manual")
    \/ SeIterate("manual")
    \/ OpDeactivate("manual")
    \/ OpAdd("manual")
    \/ OpResult("manual")
    \/ OpCommit("manual")

SpecSearch == InitSearch /\ [][NextSearch]_vars

\* ==================================================================
\* Properties
\* ==================================================================

\* C1 (Spec): in every committed state of the store each product has at most
\* one OptimizationParameters row with is_active = true, also when
\* optimize_product runs for the same product on the scheduler thread and on
\* the manual thread.
C1_OneActiveRow ==
    \A id \in ProductIds : Cardinality(ActiveRows(dbParams, id)) <= 1

\* C2 (SpecCycle): the new row of an optimize_product run and its
\* OptimizationResults row are durable together or not at all, and no row of
\* a run that raised before its own commit ever becomes durable.
C2_DurableTogether ==
    \A r \in 1..Len(runs) :
        /\ runs[r].status = "raised" => \A row \in dbParams : row.id # r
        /\ (\E row \in dbParams : row.id = r) <=> r \in dbResults

\* C3 (SpecCycle): every row make_replenishment_decision read as baseline was
\* durable when it was read and came from an optimize_product run that had
\* completed; and when the tactical step of a cycle begins after a strategic
\* step, the session holds no uncommitted parameter rows.
C3_BaselineCommitted ==
    /\ \A rd \in reads : rd.durable /\ rd.creator = "ok"
    /\ \A t \in Threads :
         (pc[t] = "ta_start" /\ steps[t] = <<"strategic", "tactical">>)
            => txParams = dbParams

\* C4 (SpecCycle): in optimize_all_products and run_optimization_cycle, when
\* the call for one product returns or raises, the loop goes on with the next
\* product; no product is attempted twice; and the loop is left only when
\* every product of the list has been attempted once.
C4_EveryProductOnce ==
    [][\A t \in Threads :
         /\ \A i \in 1..Len(products) : attempts'[t][i] <= 1
         /\ (pc[t] = "ret" /\ stack[t] # <<>> /\ stack'[t] # stack[t]
               /\ Frame(t) = "optimize_all_products")
              => (pc'[t] = "all_loop" /\ loopIdx'[t] = loopIdx[t] + 1)
         /\ (pc[t] = "ret" /\ stack[t] # <<>> /\ stack'[t] # stack[t]
               /\ Frame(t) = "run_optimization_cycle")
              => (pc'[t] \in {"tc_loop", "tc_learn"} /\ stack'[t] = Pop(t))
         /\ (pc[t] = "all_loop" /\ pc'[t] \notin {"all_loop", "op_lookup"})
              => \A i \in 1..Len(products) : attempts[t][i] = 1
         /\ (pc[t] = "tc_loop" /\ pc'[t] \notin {"tc_loop", "de_state"})
              => \A i \in 1..Len(products) : attempts[t][i] = 1
    ]_vars

\* C4, its case: optimize_all_products has returned its list although the
\* run for the first product raised, and every product was attempted once.
C4_LoopSurvivedRaise ==
    /\ pc["manual"] = "ret" /\ stack["manual"] # <<>>
    /\ Frame("manual") = "run_strategic_optimization"
    /\ ret["manual"] = "list"
    /\ \E r \in 1..Len(runs) :
         runs[r].product_id = products[1] /\ runs[r].status = "raised"
    /\ \A i \in 1..Len(products) : attempts["manual"][i] = 1

\* C5 (SpecSched): a scheduler loop that has passed a tick after
\* stop_continuous_optimization was called starts no run from then on.
C5_NoRunAfterStop ==
    \A t \in SchedThreads : stopSeen[t] = "ticked" => stack[t] = <<>>

\* C6 (SpecCycle): the steps of one run_coordination_cycle start in the order
\* strategic, tactical, validate, performance, adaptive, each at most once and
\* none before the one before it has returned; the strategic step is taken
\* exactly when no strategic run has got its optimize_all_products call back
\* yet or the strategic interval has passed since the last one that did.
C6_CycleSteps ==
    [][\A t \in Threads :
         LET full == <<"strategic", "tactical", "validate", "performance", "adaptive">>
         IN  /\ \/ \E n \in 0..Len(full) : steps'[t] = SubSeq(full, 1, n)
                \/ \E n \in 1..Len(full) : steps'[t] = SubSeq(full, 2, n)
             /\ steps'[t] # steps[t]
                  => \A i \in 1..Len(stack[t]) :
                        stack[t][i] \notin {"cycle_strategic", "cycle_tactical"}
             /\ (pc[t] = "cy_start" /\ pc'[t] # "cy_start")
                  => (steps'[t] = <<"strategic">>
                        <=> \/ strategicRuns.returned = NeverRun
                            \/ now - strategicRuns.returned >= StrategicInterval)
    ]_vars

\* C6 as stated: the strategic step is taken exactly when no strategic run
\* has ended with status success yet or the strategic interval has passed
\* since the last one that did.
C6_SinceLastSuccess ==
    [][\A t \in Threads :
         (pc[t] = "cy_start" /\ pc'[t] # "cy_start")
            => (steps'[t] = <<"strategic">>
                  <=> \/ strategicRuns.succeeded = NeverRun
                      \/ now - strategicRuns.succeeded >= StrategicInterval)
    ]_vars

\* C6, its case: a cycle has gone through its four later steps without the
\* strategic one, after an earlier strategic run that did not end in success.
C6_SkippedAfterFailedRun ==
    /\ pc["manual"] = "idle" /\ entry["manual"] = "run_coordination_cycle"
    /\ ret["manual"] = "results"
    /\ steps["manual"] = <<"tactical", "validate", "performance", "adaptive">>
    /\ strategicRuns.returned # NeverRun
    /\ strategicRuns.succeeded = NeverRun

\* C7 (SpecCycle): run_coordination_cycle returns its results dict, with the
\* tactical entry filled in, whatever the store holds.
C7_CycleReturns ==
    \A t \in Threads :
        (pc[t] = "idle" /\ entry[t] = "run_coordination_cycle")
           => (ret[t] = "results" /\ cycle[t].tactical_optimization # NoResult)

\* C8 (SpecCycle): a strategic or tactical result with status success carries
\* the counts of products optimized, skipped and failed, and they add up to
\* the number of products.
C8_CountsAddUp ==
    \A t \in Threads :
        result[t].status = "success"
           => /\ {"products_optimized", "products_skipped", "products_failed"}
                    \subseteq DOMAIN result[t]
              /\ result[t].products_optimized + result[t].products_skipped
                    + result[t].products_failed = Len(products)

C10_UnknownIdRaises ==
    \A t \in Threads :
        (/\ pc[t] = "idle"
         /\ entry[t] \in {"optimize_product", "make_replenishment_decision"}
         /\ ~ProductFound(arg[t]))
           => ret[t] = "ValueError_not_found"

\* C11 (SpecTactical): every Inventory row in the store, whichever write
\* path wrote it, and every InventoryState built has
\* available_stock = stock_level - reserved_stock.
C11_AvailableDerived ==
    /\ \A r \in InventoryRows :
          r.available_stock = r.stock_level - r.reserved_stock
    /\ \A t \in Threads :
          state[t] # NoState =>
              state[t].available_stock =
                  state[t].current_stock - state[t].reserved_stock

\* C11, witness: get_current_state has built a state from a generated row
\* that has stock reserved, and the upload has written a row as well.
C11_ReservedRowRead ==
    /\ \E r \in InventoryRows : r.reserved_stock > 0
    /\ \E r \in InventoryRows : r.stock_level = EstimatedStock(125)
    /\ state["manual"] # NoState
    /\ entry["manual"] = "make_replenishment_decision"
    /\ state["manual"].reserved_stock > 0

\* C12 (SpecTactical): no Inventory row and no InventoryState has a negative
\* available_stock: more reserved than in stock is turned away or clamped.
C12_NeverNegative ==
    /\ \A r \in InventoryRows : r.available_stock >= 0
    /\ \A t \in Threads : state[t] # NoState => state[t].available_stock >= 0

\* C13 (SpecTactical): the step of make_replenishment_decision that ends it
\* behind select_action: the final quantity is the baseline times the
\* multiplier, cut to an integer; a row is added, and the action returned,
\* only when it is positive; when it is zero no row is added and None is
\* returned.
C13_OnlyPositiveEmitted ==
    [][\A t \in Threads :
          pc[t] = "de_emit" /\ pc'[t] # "de_emit" =>
            LET q == decision'[t].quantity
            IN  /\ q = FinalQuantity(mpc[t].order_quantities[1],
                                     decision'[t].rl_action_index)
                /\ ret'[t] = "action" =>
                      /\ q > 0
                      /\ \E a \in dbActions' \ dbActions :
                            a.product_id = arg[t] /\ a.quantity = q
                /\ txActions' \ txActions # {} => q > 0
                /\ \A a \in txActions' \cup dbActions' : a.quantity > 0
                /\ q = 0 => ret'[t] = "null" /\ UNCHANGED actionVars]_vars

\* C13, witness: a baseline of 1 with the multiplier 0.5 is cut to 0, and the
\* call has returned None.
C13_HalfOfOneIsNone ==
    /\ pc["manual"] = "idle"
    /\ entry["manual"] = "make_replenishment_decision"
    /\ decision["manual"] # NoDecision
    /\ decision["manual"].mpc_recommendation = 1
    /\ decision["manual"].rl_action_index = 1
    /\ decision["manual"].quantity = 0
    /\ ret["manual"] = "null"

\* C14 (SpecCycle): when solve_mpc hands back infeasible or error, the
\* decision returns None without touching the action rows, and the loop of
\* run_optimization_cycle takes the None and goes on.
C14_FailedMpcNoAction ==
    [][\A t \in Threads :
          /\ pc[t] = "de_mpc" /\ mpc'[t].status \in {"infeasible", "error"} =>
                /\ pc'[t] = "ret"
                /\ ret'[t] = "null"
                /\ UNCHANGED actionVars
          /\ (/\ pc[t] = "ret"
              /\ stack[t] # <<>>
              /\ Frame(t) = "run_optimization_cycle"
              /\ mpc[t].status \in {"infeasible", "error"}) =>
                /\ pc'[t] = "tc_learn"
                /\ actionsTaken'[t] = actionsTaken[t]
                /\ UNCHANGED actionVars]_vars

\* C14, witness: the decision for the first of two products came back None
\* from an infeasible problem, inside the loop.
C14_InfeasibleInLoop ==
    /\ pc["manual"] = "ret"
    /\ Frame("manual") = "run_optimization_cycle"
    /\ mpc["manual"].status = "infeasible"
    /\ ret["manual"] = "null"
    /\ loopIdx["manual"] < Len(products)

\* C15 (SpecTactical): without the solver library solve_mpc hands back
\* status heuristic_fallback, and every result with a plan, from the solver
\* or from the fallback, has control_horizon orders, prediction_horizon + 1
\* inventory levels and prediction_horizon stockouts.
C15_FallbackShape ==
    \A t \in Threads :
        /\ (~cvxpy_available /\ mpc[t] # NoMpc) =>
               mpc[t].status = "heuristic_fallback"
        /\ mpc[t].status \in {"optimal", "heuristic_fallback"} =>
               /\ Len(mpc[t].order_quantities) = ControlHorizon
               /\ Len(mpc[t].predicted_inventory) = PredictionHorizon + 1
               /\ Len(mpc[t].predicted_stockouts) = PredictionHorizon

\* C15, witness: the fallback has planned an order.
C15_FallbackOrdered ==
    /\ ~cvxpy_available
    /\ mpc["manual"].status = "heuristic_fallback"
    /\ \E i \in 1..ControlHorizon : mpc["manual"].order_quantities[i] > 0

\* C16 (SpecTactical): in every result with a plan no entry of
\* predicted_inventory is above the warehouse capacity (the results carry
\* no flag of a violated constraint).
C16_WithinCapacity ==
    \A t \in Threads :
        mpc[t].status \in {"optimal", "heuristic_fallback"} =>
            \A i \in 1..Len(mpc[t].predicted_inventory) :
                mpc[t].predicted_inventory[i] <= WarehouseCapacity

\* C17 (SpecCycle): validate_parameter_consistency completes for every
\* store, and what it reports is exactly the products that have an active
\* policy, at least one action in the last 7 days, and a mean action
\* quantity more than 50% away from the policy's order_quantity.
C17_ReportsDeviating ==
    [][\A t \in Threads :
          pc[t] = "cy_validate" /\ pc'[t] # pc[t] =>
            /\ pc'[t] = "cy_performance"
            /\ cycle'[t].validation_issues =
                  {id \in ProductIds :
                      /\ ActiveRows(txParams, id) # {}
                      /\ RecentActions(txActions, id) # {}
                      /\ \E r \in ActiveRows(txParams, id) :
                            2 * SumQuantity(RecentActions(txActions, id))
                              > 3 * Cardinality(RecentActions(txActions, id))
                                  * r.order_quantity
                            \/ 2 * SumQuantity(RecentActions(txActions, id))
                              < Cardinality(RecentActions(txActions, id))
                                  * r.order_quantity}]_vars

C19_FillRate ==
    \A r \in sim.returned :
        (sim.phase = "done" /\ r.args = SimulateArgs(sim) /\ sim.demanded_units > 0) =>
            r.result.service_level.num * sim.demanded_units
                = sim.fulfilled_units * r.result.service_level.den

\* C20 (SpecSimulate): simulate takes the days in date order; on each day
\* stock at or below the reorder point is topped up by order_quantity at
\* once and one order is counted, then min(demand, stock) is fulfilled and
\* the stock stays at zero or above; the total cost returned is the sum of
\* the three costs, the order cost is the fee times the orders, and two
\* calls with the same arguments return the same values.
C20_Replay ==
    [][/\ (sim.phase = "loop" /\ sim'.phase = "loop") =>
            LET day == sim.recent_demand[sim.i + 1]
                low == sim.current_stock <= sim.reorder_point
                stocked == sim.current_stock + (IF low THEN sim.order_quantity ELSE 0)
                served == IF day.quantity <= stocked THEN day.quantity ELSE stocked
            IN  /\ sim'.i = sim.i + 1
                /\ \A j \in 1..sim.i : sim.recent_demand[j].date <= day.date
                /\ sim'.total_orders = sim.total_orders + (IF low THEN 1 ELSE 0)
                /\ sim'.fulfilled_units = sim.fulfilled_units + served
                /\ sim'.current_stock = stocked - served
                /\ sim'.current_stock >= 0
       /\ (sim.phase = "loop" /\ sim'.phase = "done") =>
            /\ sim.i = Len(sim.demand_history)
            /\ \A r \in sim'.returned :
                  /\ r.result.total_cost = r.result.holding_cost
                        + r.result.stockout_cost + r.result.order_cost
                  /\ r.result.order_cost = r.result.total_orders * OrderCost * MoneyUnits
            /\ \A r1, r2 \in sim'.returned : r1.args = r2.args => r1.result = r2.result
      ]_vars

\* C20, witness: a history handed over latest first has been replayed to
\* its end with one reorder on the way, and the same policy has been
\* simulated twice.
C20_ReplayedTwice ==
    /\ sim.phase = "done"
    /\ Len(sim.demand_history) = 3
    /\ sim.demand_history[1].date > sim.demand_history[2].date
    /\ sim.total_orders >= 1
    /\ sim.stockout_events >= 1
    /\ calls >= 2
    /\ Cardinality(sim.returned) = 1

\* C21 (SpecSearch), as claimed: for a product with or without an active
\* policy, the objective value recorded by optimize_product is at most the
\* objective of the default initial guess (1.5 times mean demand times lead
\* time, 7 days and 30 days of mean demand), and the recorded parameters were
\* evaluated in the run with exactly that value.
C21_NoWorseThanDefault ==
    search.phase = "recorded" =>
        /\ search.opt_result.objective_value <= search.default_value
        /\ \E e \in search.evaluated :
              /\ e.params = search.opt_result.parameters
              /\ e.value = search.opt_result.objective_value

\* C21 (SpecSearch), amended: the objective value recorded is at most the
\* objective of the initial guess of the run, which is the active policy cut
\* to the bounds when the product has one and the default guess otherwise;
\* the recorded parameters, in the result and in the new row, were evaluated
\* in the run with exactly that value.
C21_NoWorseThanInitial ==
    /\ search.phase \in {"loop", "done", "recorded"} =>
          /\ search.best_value <= search.initial_value
          /\ ~search.current_params => search.initial_value = search.default_value
    /\ search.phase = "recorded" =>
          /\ search.opt_result.objective_value = search.best_value
          /\ \E e \in search.evaluated :
                /\ e.params = search.opt_result.parameters
                /\ e.value = search.opt_result.objective_value
          /\ \E r \in ActiveRows(txParams, search.product_id) :
                <<r.reorder_point, r.safety_stock, r.order_quantity>>
                    = search.opt_result.parameters

\* C21 witness: a run that started from an active policy has recorded a
\* value below that of the policy it started from, found by a later pass.
C21_ImprovedOnActivePolicy ==
    /\ search.phase = "recorded"
    /\ search.current_params
    /\ search.iteration > 1
    /\ search.opt_result.objective_value < search.initial_value
    /\ search.initial_value > search.default_value

\* The claim's reading of the early stop: the best of the last five
\* observations is less than 1% below the best of the five before them.
SmallImprovementOnPriorFive(y) ==
    /\ Len(y.last) = 5 /\ Len(y.before) = 5
    /\ MinOf(y.before) - MinOf(y.last) < Hundredth(MinOf(y.before))

\* C23 (SpecSearch), as claimed: the loop evaluates at most max_iterations
\* candidates after the initial guess, and it is left before that maximum
\* only when the best objective of the last 5 iterations improved by less
\* than 1% on the best objective of the 5 iterations before them.
C23_StopsOnPriorFive ==
    [][(search.phase = "loop" /\ search'.phase = "done")
          => /\ search'.iteration <= config.max_iterations
             /\ search'.iteration < config.max_iterations
                  => SmallImprovementOnPriorFive(search'.y_observed)]_vars

\* C23 (SpecSearch), amended: the loop evaluates at most max_iterations
\* candidates after the initial guess; it goes on to the result before that
\* maximum only from the twelfth candidate on, when the best of the last 5
\* observations differs by less than 1% of the best value so far from the
\* best of all observations before them; any other pass goes on with the
\* loop or ends optimize_product with the exception of the fit.
C23_StopsOnAllBefore ==
    /\ [](search.phase \in {"loop", "done", "recorded"} =>
             /\ search.iteration <= config.max_iterations
             /\ search.y_observed.len = search.iteration + 1
             /\ search.phase = "loop" => search.iteration < config.max_iterations)
    /\ [][search.phase = "loop" =>
             \/ /\ search'.phase = "loop"
                /\ search'.iteration = search.iteration + 1
             \/ /\ search'.phase = "none"
                /\ ret'["manual"] = "exception"
             \/ /\ search'.phase = "done"
                /\ search'.iteration = search.iteration + 1
                /\ \/ search'.iteration = config.max_iterations
                   \/ /\ search'.iteration >= 12
                      /\ Abs(MinOf(search'.y_observed.last) - search'.y_observed.older[1])
                            < Hundredth(search'.best_value)]_vars

\* C23 witness: the loop was left at the early stop although the best of the
\* last five is far below the best of the five before them.
C23_StoppedAfterLargeImprovement ==
    /\ search.phase = "done"
    /\ search.early
    /\ search.iteration < config.max_iterations
    /\ ~SmallImprovementOnPriorFive(search.y_observed)

\* C24 (SpecSearch): a failure of the surrogate fit or of the acquisition
\* search in a pass of the loop is caught inside the loop: the pass goes on
\* with a candidate, and the run goes on to write its result.
C24_FitFailureCaught ==
    [][search.phase = "loop" =>
          /\ search'.phase \in {"loop", "done"}
          /\ ret'["manual"] # "exception"
          /\ search'.iteration = search.iteration + 1]_vars

\* C25 (SpecSearch): constraints_satisfied of the result written by
\* optimize_product is true exactly when the service level simulated for the
\* recorded parameters is at least the target.
C25_FlagTellsServiceLevel ==
    search.phase = "recorded" =>
        \A e \in search.evaluated :
            e.params = search.opt_result.parameters =>
                (search.opt_result.constraints_satisfied <=> ~BelowTarget(e.service_level))

\* The order the claim has arrive in step k (0-based) of the trajectory: the
\* one decided lead_time_days steps before, nothing when there is none.  For
\* the solver the trajectory holds the order as it was before line 193 raised
\* it to min_order_quantity.
ClaimedArrivals(r, k, prod) ==
    LET t == k - prod.lead_time_days
    IN  IF t < 0 \/ t >= ControlHorizon THEN {0}
        ELSE {r.order_quantities[t + 1]}
             \cup IF r.status = "optimal"
                      /\ r.order_quantities[t + 1] = prod.min_order_quantity
                    THEN 1..prod.min_order_quantity
                    ELSE {}

\* C22 (SpecTactical): in predicted_inventory of every result with a plan,
\* of the solver and of the fallback, the order decided for period t is
\* added in period t + lead_time_days and in no earlier one, and an order
\* that would arrive after the horizon adds nothing: each level is the one
\* before it, plus the order decided lead_time_days periods earlier, less
\* the forecast, plus the stockout of the period.
C22_ArrivesAfterLeadTime ==
    \A t \in Threads :
        (mpc[t] # NoMpc /\ HasPlan(mpc[t])) =>
            \A k \in 0..(PredictionHorizon - 1) :
                \E arrival \in ClaimedArrivals(mpc[t], k, productRow[state[t].product_id]) :
                    mpc[t].predicted_inventory[k + 2] =
                        mpc[t].predicted_inventory[k + 1] + arrival
                            - PredictDemand(state[t].recent_demand)[k + 1]
                            + mpc[t].predicted_stockouts[k + 1]

\* C28 (SpecTactical): make_replenishment_decision goes on to select_action,
\* and so emits an action, only when solve_mpc handed back the status
\* "optimal"; a "heuristic_fallback" result returns None like a failure, so
\* without the solver library no InventoryAction is ever written and no
\* decision returns one.
C28_OnlyOptimalEmits ==
    /\ [](~cvxpy_available =>
             /\ txActions = {} /\ dbActions = {}
             /\ \A t \in Threads : pc[t] # "de_emit" /\ ret[t] # "action")
    /\ [][\A t \in Threads :
             /\ (pc[t] = "de_mpc" /\ mpc'[t].status = "heuristic_fallback") =>
                   (pc'[t] # "de_emit" /\ ret'[t] = "null" /\ UNCHANGED actionVars)
             /\ (pc[t] = "de_mpc" /\ pc'[t] = "de_emit") => mpc'[t].status = "optimal"
             /\ (pc[t] = "de_emit" /\ ret'[t] = "action") => mpc[t].status = "optimal"]_vars

\* C28, witness: without the solver library the fallback planned an order
\* and the decision came back None.
C28_FallbackPlanDropped ==
    /\ ~cvxpy_available
    /\ pc["manual"] = "idle"
    /\ entry["manual"] = "make_replenishment_decision"
    /\ ret["manual"] = "null"
    /\ mpc["manual"].status = "heuristic_fallback"
    /\ \E i \in 1..ControlHorizon : mpc["manual"].order_quantities[i] > 0
    /\ txActions = {}

\* C29 (SpecTactical): the Q-value of an agent is the same for every action
\* index, so a select_action that does not explore returns index 0 and
\* quantity 0 whatever the agent has learnt, and the decision returns None
\* without a row; a positive quantity comes from an exploration step only.
C29_GreedyOrdersNothing ==
    [][\A t \in Threads :
          pc[t] = "de_emit" =>
              /\ \A i, j \in ActionIndices :
                    GetQValue(rl_agents[arg[t]], i) = GetQValue(rl_agents[arg[t]], j)
              /\ ~decision'[t].explored =>
                    /\ decision'[t].rl_action_index = 0
                    /\ decision'[t].quantity = 0
                    /\ ret'[t] = "null"
                    /\ UNCHANGED actionVars
              /\ decision'[t].quantity > 0 => decision'[t].explored]_vars

\* C29, witness: a fitted agent with a positive Q-value took the greedy branch
\* on a positive baseline and ordered nothing.
C29_GreedyOnPositiveBaseline ==
    /\ pc["manual"] = "idle"
    /\ decision["manual"] # NoDecision
    /\ ~decision["manual"].explored
    /\ rl_agents["p1"].is_fitted
    /\ rl_agents["p1"].q > 0
    /\ decision["manual"].mpc_recommendation > 0
    /\ decision["manual"].quantity = 0
    /\ ret["manual"] = "null"

\* C30 (SpecTactical): every InventoryAction written by
\* make_replenishment_decision has a quantity from min_order_quantity to
\* max_order_quantity of its product.
C30_QuantityWithinOrderLimits ==
    \A a \in txActions \cup dbActions :
        /\ a.quantity >= productRow[a.product_id].min_order_quantity
        /\ a.quantity <= productRow[a.product_id].max_order_quantity

\* C26 (SpecSched): while the flag is set at most one scheduler loop is
\* live: a start after a stop leaves no earlier loop running beside the new
\* one.
C26_OneLiveLoop ==
    is_running => Cardinality({s \in SchedThreads : Live(s)}) <= 1

====
